---------------------------- MODULE Spec2Model ----------------------------
(***************************************************************************)
(* A model of the geometry, coordinate-transform, annotation and history   *)
(* logic of rvimage.                                                       *)
(*                                                                         *)
(* Conventions                                                             *)
(*   Shape      == [w |-> .., h |-> ..]                                    *)
(*   BB         == [x |-> .., y |-> .., w |-> .., h |-> ..]                *)
(*   Point      == <<x, y>>                                                *)
(*   Option<T>  == <<>> for None and <<v>> for Some(v)                     *)
(*   Vec<T>     == a sequence, index 1 is Rust's index 0                   *)
(* The module holds several state machines over disjoint groups of         *)
(* variables; each specification drives one group and leaves the others    *)
(* at their idle value.                                                    *)
(***************************************************************************)
EXTENDS Integers, Sequences, FiniteSets, TLC

VARIABLES
    \* coordinate transform: the view parameters and the last round trip
    shape_orig, shape_win, zoom_box, tf_op, tf_in, tf_mid, tf_out,
    \* a single bounding box inside an image and the last operation on it
    bb, bb_shape, bb_op, bb_arg, bb_res,
    \* history: the snapshots and cursor of History, the live world of the
    \* event loop, its file selection and loading flag; next_id numbers the
    \* edited states; h_calls, pre_records, pre_cursor, discarded and pat
    \* record the calls made on History
    records, cursor, live, is_loading_screen_active, file_selected,
    menu_file_selected, next_id, h_calls, pre_records, pre_cursor, discarded,
    pat,
    \* box annotations of one image: the boxes with their selection flags,
    \* the per-box labels and colors, the shape of the image, whether an
    \* operation panicked, the last operation and the boxes it changed
    bbs, selected_bbs, labels, colors, anno_shape, panicked, anno_op,
    anno_changed,
    \* the label table of BboxSpecificData: its labels, colors and category
    \* ids, the current category, whether an operation panicked and the
    \* last operation with its arguments and what it returned, and the
    \* annotations of every file that has some
    data_labels, data_colors, cat_ids, cat_idx_current, data_panicked, data_op,
    annotations_map,
    \* color assignment: the candidate colors, the colors in use, the last
    \* operation and the color it returned
    picklist, legacylist, clr_op, clr_res,
    \* box text: the string handed to BB::from_str and what the call did
    str_in, str_res,
    \* remote image requests: the messages waiting in the channel, how many
    \* were sent so far, how many had been sent at the last poll, the
    \* message the last poll handled and the messages it discarded, the
    \* file label selected in the menu
    rx, rx_sent, rx_polled, rx_handled, rx_dropped, rx_label,
    \* the inner-point iterator of a box: its box and position, the points
    \* it has yielded and whether it runs, has ended or has panicked
    it_bb, it_x, it_y, it_out, it_state

varsTf == <<shape_orig, shape_win, zoom_box, tf_op, tf_in, tf_mid, tf_out>>
varsBB == <<bb, bb_shape, bb_op, bb_arg, bb_res>>
varsHist == <<records, cursor, live, is_loading_screen_active, file_selected,
              menu_file_selected, next_id, h_calls, pre_records, pre_cursor,
              discarded, pat>>
varsAnno == <<bbs, selected_bbs, labels, colors, anno_shape, panicked, anno_op,
              anno_changed>>
varsData == <<data_labels, data_colors, cat_ids, cat_idx_current,
              data_panicked, data_op, annotations_map>>
varsClr == <<picklist, legacylist, clr_op, clr_res>>
varsStr == <<str_in, str_res>>
varsRx == <<rx, rx_sent, rx_polled, rx_handled, rx_dropped, rx_label>>
varsIt == <<it_bb, it_x, it_y, it_out, it_state>>
vars == <<varsTf, varsBB, varsHist, varsAnno, varsData, varsClr, varsStr,
          varsRx, varsIt>>

---------------------------------------------------------------------------
(* Bounds of the model *)

\* largest width/height of shape_orig and shape_win in the transform machine
MaxDim == 4
\* largest width/height of the image in the single-box machine
MaxBoxDim == 4
\* largest absolute shift handed to translate / shift_min / shift_max
MaxShift == 3
\* number of files of the file list
MaxFiles == 2
\* number of distinct edited states a behaviour can create
MaxEdits == 2
\* largest number of snapshots History holds
MaxHist == 2
\* largest number of boxes in the resize machine
MaxBoxes == 2
\* long and short side of the image in the resize machine
MaxAnnoLong == 4
MaxAnnoShort == 2
\* largest absolute shift of a group resize
MaxResize == 1
\* largest number of boxes in the annotation machine
MaxAnnos == 2
MaxCats == 3
MaxCatId == 3
MaxFileAnnos == 1
MaxZoomLong == 12
MaxZoomShort == 6
MaxWheel == 3
MaxPoint == 3
MaxMouse == 2
MaxFields == 5
MaxSent == 4
MaxIterDim == 3
MaxYield == 10
MaxPick == 3
MaxLegacy == 2

---------------------------------------------------------------------------
(* Option and small helpers *)

None == <<>>
Some(v) == <<v>>
IsSome(o) == Len(o) = 1
Unwrap(o) == o[1]

Abs(i) == IF i < 0 THEN 0 - i ELSE i
Min(a, b) == IF a < b THEN a ELSE b
Max(a, b) == IF a > b THEN a ELSE b

\* f64::floor and f64::ceil of the quotient a / b of two non-negative
\* integers, b > 0.  For the magnitudes of this model the f64 quotient of two
\* integers is rounded correctly and never crosses an integer, so floor and
\* ceil of the f64 value are those of the rational.
FloorDiv(a, b) == a \div b
CeilDiv(a, b) == (a + b - 1) \div b

Shape(w, h) == [w |-> w, h |-> h]
MkBB(x, y, w, h) == [x |-> x, y |-> y, w |-> w, h |-> h]

---------------------------------------------------------------------------
(* domain.rs: Shape, shape_scaled, shape_unscaled *)

\* (a as f64 / (b as f64 / c as f64)) as u32 differs from floor(a*c/b) only
\* where the doubly rounded f64 quotient falls just below an integer.  For
\* 1 <= a, b, c <= 10 this happens exactly at 9.0 / (9.0 / 7.0), which is
\* 6.999999999999999 and truncates to 6.
F64Deficit(a, b, c) == IF <<a, b, c>> = <<9, 9, 7>> THEN 1 ELSE 0

\* (a as f64 / ratio) as u32 with ratio = b as f64 / c as f64
F64DivTrunc(a, b, c) == ((a * c) \div b) - F64Deficit(a, b, c)

shape_scaled(unscaled, win) ==
    \* ratio = w_ratio.max(h_ratio); w_ratio >= h_ratio iff uw*wh >= uh*ww
    IF unscaled.w * win.h >= unscaled.h * win.w
    THEN Shape(F64DivTrunc(unscaled.w, unscaled.w, win.w),
               F64DivTrunc(unscaled.h, unscaled.w, win.w))
    ELSE Shape(F64DivTrunc(unscaled.w, unscaled.h, win.h),
               F64DivTrunc(unscaled.h, unscaled.h, win.h))

bb_shape_of(b) == Shape(b.w, b.h)

shape_unscaled(zb, so) == IF IsSome(zb) THEN bb_shape_of(Unwrap(zb)) ELSE so

---------------------------------------------------------------------------
(* domain.rs: BB *)

contains(b, p) ==
    /\ b.x <= p[1] /\ p[1] < b.x + b.w
    /\ b.y <= p[2] /\ p[2] < b.y + b.h

is_contained_in_image(b, shape) ==
    b.x + b.w < shape.w /\ b.y + b.h < shape.h

new_shape_checked(x, y, w, h, shape) ==
    IF x < 0 \/ y < 0 \/ w < 1 \/ h < 1
    THEN None
    ELSE IF is_contained_in_image(MkBB(x, y, w, h), shape)
         THEN Some(MkBB(x, y, w, h))
         ELSE None

translate(b, x_shift, y_shift, shape) ==
    new_shape_checked(b.x + x_shift, b.y + y_shift, b.w, b.h, shape)

\* shift_max that clamps the moved corner into the image and to size 1
shift_max_clamped(b, x_shift, y_shift, shape) ==
    LET w == IF b.w + x_shift < 1 THEN 1
             ELSE IF b.x + b.w + x_shift > shape.w THEN shape.w - b.x
             ELSE b.w + x_shift
        h == IF b.h + y_shift < 1 THEN 1
             ELSE IF b.y + b.h + y_shift > shape.h THEN shape.h - b.y
             ELSE b.h + y_shift
    IN  new_shape_checked(b.x, b.y, w, h, shape)

shift_max(b, x_shift, y_shift, shape) ==
    new_shape_checked(b.x, b.y, b.w + x_shift, b.h + y_shift, shape)

shift_min(b, x_shift, y_shift, shape) ==
    new_shape_checked(b.x + x_shift, b.y + y_shift,
                      b.w - x_shift, b.h - y_shift, shape)

\* from and to are positions <<x, y>>
follow_movement(b, from, to, shape) ==
    LET x_shift == to[1] - from[1]
        y_shift == to[2] - from[2]
    IN  translate(b, x_shift, y_shift, shape)

---------------------------------------------------------------------------
(* domain.rs: the view <-> original position transform *)

\* a view -> original coordinate transform that always rounds down
coord_view_2_orig_floor(x, n_transformed, n_orig, off) ==
    IF n_transformed = 0 THEN off
    ELSE off + FloorDiv(x * n_orig, n_transformed)

\* the closure coord_view_2_orig of view_pos_to_orig_pos.  With
\* n_transformed = 0 and x * n_orig = 0 the quotient is NaN, which floor
\* keeps and `as u32` turns into 0.  (x > 0 with n_transformed = 0 gives
\* +inf and u32::MAX; no position of this model reaches it.)
coord_view_2_orig(x, n_transformed, n_orig, off) ==
    CASE n_transformed = 0 /\ x * n_orig = 0 -> off
      [] n_transformed > 0 /\ n_transformed > n_orig ->
            off + CeilDiv(x * n_orig, n_transformed)
      [] n_transformed > 0 /\ n_transformed <= n_orig ->
            off + FloorDiv(x * n_orig, n_transformed)

\* an original -> view coordinate transform that forgets the zoom offset
coord_orig_2_view_no_off(x, n_transformed, n_orig, off) ==
    IF n_transformed > n_orig
    THEN FloorDiv(x * n_transformed, n_orig)
    ELSE CeilDiv(x * n_transformed, n_orig)

\* the closure coord_orig_2_view of orig_pos_to_view_pos (n_orig >= 1)
coord_orig_2_view(x, n_transformed, n_orig, off) ==
    IF n_transformed > n_orig
    THEN FloorDiv((x - off) * n_transformed, n_orig)
    ELSE CeilDiv((x - off) * n_transformed, n_orig)

\* the offset (x_off, y_off) of pos_transform: the zoom box origin, or (0, 0)
tf_offset(zb) == IF IsSome(zb) THEN <<Unwrap(zb).x, Unwrap(zb).y>> ELSE <<0, 0>>

\* pos_transform with the per-axis function chosen by `dir`:
\* "view2orig" is coord_view_2_orig, "orig2view" is coord_orig_2_view
pos_transform(pos, so, sw, zb, dir) ==
    LET unscaled == shape_unscaled(zb, so)
        scaled == shape_scaled(unscaled, sw)
        off == tf_offset(zb)
    IN  IF dir = "view2orig"
        THEN <<coord_view_2_orig(pos[1], scaled.w, unscaled.w, off[1]),
               coord_view_2_orig(pos[2], scaled.h, unscaled.h, off[2])>>
        ELSE <<coord_orig_2_view(pos[1], scaled.w, unscaled.w, off[1]),
               coord_orig_2_view(pos[2], scaled.h, unscaled.h, off[2])>>

view_pos_to_orig_pos(view_pos, so, sw, zb) ==
    pos_transform(view_pos, so, sw, zb, "view2orig")

orig_pos_to_view_pos(orig_pos, so, sw, zb) ==
    IF IsSome(zb) /\ ~contains(Unwrap(zb), orig_pos)
    THEN None
    ELSE Some(pos_transform(orig_pos, so, sw, zb, "orig2view"))

---------------------------------------------------------------------------
(* The transform machine: view parameters are drawn at Init, each step      *)
(* runs one round trip through both transforms.                            *)

Shapes(n) == {Shape(w, h) : w \in 1..n, h \in 1..n}

\* every box with w, h >= 1 inside `shape` (x + w <= shape.w, y + h <= shape.h)
BoxesIn(shape) ==
    {MkBB(x, y, w, h) : x \in 0..(shape.w - 1), y \in 0..(shape.h - 1),
                        w \in 1..shape.w, h \in 1..shape.h}
    \cap {b \in [x : 0..shape.w, y : 0..shape.h, w : 1..shape.w, h : 1..shape.h] :
            b.x + b.w <= shape.w /\ b.y + b.h <= shape.h}

IdleBB ==
    /\ bb = MkBB(0, 0, 1, 1) /\ bb_shape = Shape(1, 1)
    /\ bb_op = "idle" /\ bb_arg = <<0, 0>> /\ bb_res = None

IdleTf ==
    /\ shape_orig = Shape(1, 1) /\ shape_win = Shape(1, 1) /\ zoom_box = None
    /\ tf_op = "idle" /\ tf_in = <<0, 0>> /\ tf_mid = None /\ tf_out = None

IdleHist ==
    /\ records = <<>> /\ cursor = 0 /\ live = 0
    /\ is_loading_screen_active = FALSE
    /\ file_selected = None /\ menu_file_selected = None
    /\ next_id = 0 /\ h_calls = <<>>
    /\ pre_records = <<>> /\ pre_cursor = 0 /\ discarded = {}
    /\ pat = [st |-> 0, a |-> 0, b |-> 0, live |-> 0]

IdleAnno ==
    /\ bbs = <<>> /\ selected_bbs = <<>> /\ labels = <<>> /\ colors = <<>>
    /\ anno_shape = Shape(1, 1) /\ panicked = FALSE
    /\ anno_op = [name |-> "idle", mode |-> "None", x_shift |-> 0,
                  y_shift |-> 0, idx |-> 0]
    /\ anno_changed = {}

IdleData ==
    /\ data_labels = <<>> /\ data_colors = <<>> /\ cat_ids = <<>>
    /\ cat_idx_current = 0 /\ data_panicked = FALSE
    /\ data_op = [name |-> "idle", arg |-> <<>>, ret |-> "Ok"]
    /\ annotations_map = <<>>

IdleClr ==
    /\ picklist = <<>> /\ legacylist = <<>>
    /\ clr_op = "idle" /\ clr_res = None

IdleRx ==
    /\ rx = <<>> /\ rx_sent = 0 /\ rx_polled = 0
    /\ rx_handled = None /\ rx_dropped = {} /\ rx_label = None

IdleIt ==
    /\ it_bb = MkBB(0, 0, 1, 1) /\ it_x = 0 /\ it_y = 0
    /\ it_out = <<>> /\ it_state = "idle"

IdleStr ==
    /\ str_in = <<>>
    /\ str_res = [kind |-> "idle"]

InitTf ==
    /\ shape_orig \in Shapes(MaxDim)
    /\ shape_win \in Shapes(MaxDim)
    /\ zoom_box \in {None} \cup {Some(b) : b \in BoxesIn(shape_orig)}
    /\ tf_op = "none" /\ tf_in = <<0, 0>> /\ tf_mid = None /\ tf_out = None
    /\ IdleBB /\ IdleHist /\ IdleAnno /\ IdleData /\ IdleClr /\ IdleStr /\ IdleRx /\ IdleIt

Unscaled == shape_unscaled(zoom_box, shape_orig)
Scaled == shape_scaled(Unscaled, shape_win)

\* the original-space pixels that are visible
VisibleRegion ==
    IF IsSome(zoom_box) THEN Unwrap(zoom_box)
    ELSE MkBB(0, 0, shape_orig.w, shape_orig.h)

PointsOf(b) == {<<x, y>> : x \in b.x..(b.x + b.w - 1), y \in b.y..(b.y + b.h - 1)}

\* original -> view -> original
OrigViewOrig(p) ==
    LET mid == orig_pos_to_view_pos(p, shape_orig, shape_win, zoom_box)
    IN  /\ tf_op' = "orig_view_orig"
        /\ tf_in' = p
        /\ tf_mid' = mid
        /\ tf_out' = IF IsSome(mid)
                     THEN Some(view_pos_to_orig_pos(Unwrap(mid), shape_orig,
                                                    shape_win, zoom_box))
                     ELSE None
        /\ UNCHANGED <<shape_orig, shape_win, zoom_box>>
        /\ UNCHANGED <<varsBB, varsHist, varsAnno, varsData, varsClr, varsStr, varsRx, varsIt>>

\* view -> original -> view
ViewOrigView(v) ==
    LET mid == view_pos_to_orig_pos(v, shape_orig, shape_win, zoom_box)
    IN  /\ tf_op' = "view_orig_view"
        /\ tf_in' = v
        /\ tf_mid' = Some(mid)
        /\ tf_out' = orig_pos_to_view_pos(mid, shape_orig, shape_win, zoom_box)
        /\ UNCHANGED <<shape_orig, shape_win, zoom_box>>
        /\ UNCHANGED <<varsBB, varsHist, varsAnno, varsData, varsClr, varsStr, varsRx, varsIt>>

NextTf ==
    \/ \E p \in PointsOf(VisibleRegion) : OrigViewOrig(p)
    \/ \E v \in PointsOf(MkBB(0, 0, Scaled.w, Scaled.h)) : ViewOrigView(v)

SpecTf == InitTf /\ [][NextTf]_vars

mouse_pos_to_orig_pos(mouse_pos, so, sw, zb) ==
    IF ~IsSome(mouse_pos) THEN None
    ELSE LET p == view_pos_to_orig_pos(Unwrap(mouse_pos), so, sw, zb)
         IN  IF p[1] < so.w /\ p[2] < so.h THEN Some(p) ELSE None

\* C25: for every view position inside the scaled view shape,
\* view_pos_to_orig_pos gives a position inside the zoom box or, without a
\* zoom box, inside the original image, and mouse_pos_to_orig_pos returns
\* Some for that pixel of the view.
C25_ViewPosInsideVisible ==
    tf_op = "view_orig_view" =>
        /\ contains(VisibleRegion, Unwrap(tf_mid))
        /\ IsSome(mouse_pos_to_orig_pos(Some(tf_in), shape_orig, shape_win,
                                        zoom_box))

\* C26: for an unscaled shape and a window shape with all dimensions >= 1
\* the shape that shape_scaled returns has 1 <= w <= shape_win.w and
\* 1 <= h <= shape_win.h, and w = shape_win.w or h = shape_win.h.
C26_ShapeScaledFits ==
    tf_op # "none" =>
        /\ 1 <= Scaled.w /\ Scaled.w <= shape_win.w
        /\ 1 <= Scaled.h /\ Scaled.h <= shape_win.h
        /\ (Scaled.w = shape_win.w \/ Scaled.h = shape_win.h)

\* extent of the visible original region (n_orig) and of the scaled view
\* (n_transformed) on axis i, 1 = x and 2 = y
AxisU(i) == IF i = 1 THEN Unscaled.w ELSE Unscaled.h
AxisS(i) == IF i = 1 THEN Scaled.w ELSE Scaled.h

\* C1 as amended: for a position p of the visible region,
\* view_pos_to_orig_pos(orig_pos_to_view_pos(p)) exists and, on every axis
\* whose scaled extent is at least 1, differs from p by at most
\* ceil(unscaled / scaled) - 1 pixels: it is exact where the view is not
\* downscaled, within 2 pixels where unscaled <= 3 * scaled, and exact when
\* shape_orig = shape_win and there is no zoom box.
C1_RoundTripOrig ==
    tf_op = "orig_view_orig" =>
        /\ IsSome(tf_mid) /\ IsSome(tf_out)
        /\ \A i \in 1..2 :
            LET err == Abs(Unwrap(tf_out)[i] - tf_in[i])
            IN  /\ AxisS(i) >= AxisU(i) => err = 0
                /\ (1 <= AxisS(i) /\ AxisS(i) < AxisU(i)) =>
                        err <= CeilDiv(AxisU(i), AxisS(i)) - 1
                /\ (1 <= AxisS(i) /\ AxisU(i) <= 3 * AxisS(i)) => err <= 2
        /\ (shape_orig = shape_win /\ zoom_box = None) => Unwrap(tf_out) = tf_in

\* a zoomed, downscaled round trip that comes back one or two pixels off
C1_Witness ==
    /\ tf_op = "orig_view_orig" /\ IsSome(zoom_box) /\ IsSome(tf_out)
    /\ Unwrap(zoom_box).x > 0
    /\ 1 <= Scaled.w /\ Scaled.w < Unscaled.w
    /\ Abs(Unwrap(tf_out)[1] - tf_in[1]) \in 1..2

\* C1 as stated: the round trip is within 2 pixels on each axis for every
\* visible position, and exact for shape_orig = shape_win without zoom box.
C1_Original ==
    tf_op = "orig_view_orig" =>
        /\ IsSome(tf_out)
        /\ \A i \in 1..2 : Abs(Unwrap(tf_out)[i] - tf_in[i]) <= 2
        /\ (shape_orig = shape_win /\ zoom_box = None) => Unwrap(tf_out) = tf_in

---------------------------------------------------------------------------
(* The single-box machine: a box inside an image, drawn at Init, and the   *)
(* rejecting geometry operations applied to it.                            *)

Shifts == (0 - MaxShift)..MaxShift

InitBB ==
    /\ bb_shape \in Shapes(MaxBoxDim)
    /\ bb \in BoxesIn(bb_shape)
    /\ bb_op = "none" /\ bb_arg = <<0, 0>> /\ bb_res = None
    /\ IdleTf /\ IdleHist /\ IdleAnno /\ IdleData /\ IdleClr /\ IdleStr /\ IdleRx /\ IdleIt

Translate(dx, dy) ==
    /\ bb_op' = "translate"
    /\ bb_arg' = <<dx, dy>>
    /\ bb_res' = translate(bb, dx, dy, bb_shape)
    /\ UNCHANGED <<bb, bb_shape>>
    /\ UNCHANGED <<varsTf, varsHist, varsAnno, varsData, varsClr, varsStr, varsRx, varsIt>>

ShiftMax(dx, dy) ==
    /\ bb_op' = "shift_max"
    /\ bb_arg' = <<dx, dy>>
    /\ bb_res' = shift_max(bb, dx, dy, bb_shape)
    /\ UNCHANGED <<bb, bb_shape>>
    /\ UNCHANGED <<varsTf, varsHist, varsAnno, varsData, varsClr, varsStr, varsRx, varsIt>>

ShiftMin(dx, dy) ==
    /\ bb_op' = "shift_min"
    /\ bb_arg' = <<dx, dy>>
    /\ bb_res' = shift_min(bb, dx, dy, bb_shape)
    /\ UNCHANGED <<bb, bb_shape>>
    /\ UNCHANGED <<varsTf, varsHist, varsAnno, varsData, varsClr, varsStr, varsRx, varsIt>>

NextBB ==
    \/ \E dx \in Shifts, dy \in Shifts : Translate(dx, dy)
    \/ \E dx \in Shifts, dy \in Shifts : ShiftMax(dx, dy)
    \/ \E dx \in Shifts, dy \in Shifts : ShiftMin(dx, dy)

SpecBB == InitBB /\ [][NextBB]_vars

\* C18: shift_max and shift_min never clamp.  A Some result of shift_max is
\* (x, y, w + dx, h + dy), a Some result of shift_min is
\* (x + dx, y + dy, w - dx, h - dy); in both cases the result has w >= 1,
\* h >= 1, x + w <= shape.w and y + h <= shape.h; and a shift whose
\* unclamped result breaks one of these conditions returns None.
C18_ShiftNeverClamps ==
    LET dx == bb_arg[1]
        dy == bb_arg[2]
        unclamped == IF bb_op = "shift_max"
                     THEN MkBB(bb.x, bb.y, bb.w + dx, bb.h + dy)
                     ELSE MkBB(bb.x + dx, bb.y + dy, bb.w - dx, bb.h - dy)
        holds(b) == /\ b.w >= 1 /\ b.h >= 1
                    /\ b.x + b.w <= bb_shape.w /\ b.y + b.h <= bb_shape.h
    IN  bb_op \in {"shift_max", "shift_min"} =>
            /\ IsSome(bb_res) => Unwrap(bb_res) = unclamped /\ holds(unclamped)
            /\ ~holds(unclamped) => bb_res = None

\* A shift_min that moves the min corner in both axes and is accepted.
C18_Witness ==
    /\ bb_op = "shift_min" /\ IsSome(bb_res)
    /\ bb_arg[1] > 0 /\ bb_arg[2] < 0
    /\ Unwrap(bb_res).x + Unwrap(bb_res).w = bb.x + bb.w
    /\ Unwrap(bb_res).y + Unwrap(bb_res).h = bb.y + bb.h

\* C3: b.translate(dx, dy, s) is Some(b') exactly when the translated box
\* has a non-negative origin and x + w <= s.w and y + h <= s.h, b' being
\* that box, and None otherwise.
C3_TranslateContained ==
    bb_op = "translate" =>
        LET x == bb.x + bb_arg[1]
            y == bb.y + bb_arg[2]
        IN  bb_res = IF /\ x >= 0 /\ y >= 0
                        /\ x + bb.w <= bb_shape.w /\ y + bb.h <= bb_shape.h
                     THEN Some(MkBB(x, y, bb.w, bb.h))
                     ELSE None

---------------------------------------------------------------------------
(* History (rvlib::history): a sequence of snapshots with a cursor.  The   *)
(* cursor is the position of the snapshot that stands for the live state;  *)
(* 0 when there is none.  A history is [records |-> .., cursor |-> ..],    *)
(* a call returns [h |-> the history after it, ret |-> the returned state]. *)

Range(f) == {f[i] : i \in DOMAIN f}

history_new == [records |-> <<>>, cursor |-> 0]

\* push that keeps the redo tail and writes behind it
history_push_no_truncate(h, s) ==
    [records |-> Append(h.records, s), cursor |-> Len(h.records) + 1]

\* push(snapshot): appends at the cursor, discarding the redo tail
history_push(h, s) ==
    [records |-> Append(SubSeq(h.records, 1, h.cursor), s),
     cursor |-> h.cursor + 1]

can_undo(h) == h.cursor > 1
can_redo(h) == h.cursor < Len(h.records)

\* undo that hands out the oldest snapshot once more at the bottom
prev_world_bottom(h, curr) ==
    IF h.cursor >= 1
    THEN [h |-> [records |-> [h.records EXCEPT ![h.cursor] = curr],
                 cursor |-> Max(h.cursor - 1, 1)],
          ret |-> h.records[Max(h.cursor - 1, 1)]]
    ELSE [h |-> h, ret |-> curr]

\* undo: moves the cursor back one position, swaps the live state into the
\* vacated slot, returns the previous state; a no-op with nothing to undo
prev_world(h, curr) ==
    IF can_undo(h)
    THEN [h |-> [records |-> [h.records EXCEPT ![h.cursor] = curr],
                 cursor |-> h.cursor - 1],
          ret |-> h.records[h.cursor - 1]]
    ELSE [h |-> h, ret |-> curr]

\* redo that returns the snapshot it is given instead of the stored one
next_world_echo(h, curr) ==
    IF can_redo(h)
    THEN [h |-> [records |-> [h.records EXCEPT ![h.cursor] = curr],
                 cursor |-> h.cursor + 1],
          ret |-> curr]
    ELSE [h |-> h, ret |-> curr]

\* redo: the mirror of undo; a no-op with nothing to redo
next_world(h, curr) ==
    IF can_redo(h)
    THEN [h |-> [records |-> [h.records EXCEPT ![h.cursor] = curr],
                 cursor |-> h.cursor + 1],
          ret |-> h.records[h.cursor + 1]]
    ELSE [h |-> h, ret |-> curr]

---------------------------------------------------------------------------
(* The history machine: the event loop of main.rs and the brush tool.      *)
(* States of the world are numbers: 0 the empty start world, 1..MaxFiles   *)
(* the images of the files, then the edited states, then the loading       *)
(* screen.                                                                 *)

EmptyWorld == 0
FileImage(f) == f
EditedState(n) == MaxFiles + n
LoadingImage == MaxFiles + MaxEdits + 1

History == [records |-> records, cursor |-> cursor]

\* the last two calls made on History, newest last
LogCall(op, arg, ret, moved) ==
    LET all == Append(h_calls, [op |-> op, arg |-> arg, ret |-> ret, moved |-> moved])
    IN  IF Len(all) > 2 THEN Tail(all) ELSE all

\* how far the calls on History have come on the sequence push(a), push(b),
\* undo, redo: st = 1 after a push, 2 after two pushes in a row, 3 after an
\* undo that follows them (live is the state handed to that undo), 4 after
\* the redo that follows; any other call starts over
PatNext(op, arg) ==
    CASE op = "push" /\ pat.st = 0 -> [st |-> 1, a |-> arg, b |-> 0, live |-> 0]
      [] op = "push" /\ pat.st = 1 -> [st |-> 2, a |-> pat.a, b |-> arg, live |-> 0]
      [] op = "push" /\ pat.st = 2 -> [st |-> 2, a |-> pat.b, b |-> arg, live |-> 0]
      [] op = "push" /\ pat.st > 2 -> [st |-> 1, a |-> arg, b |-> 0, live |-> 0]
      [] op = "undo" /\ pat.st = 2 -> [pat EXCEPT !.st = 3, !.live = arg]
      [] op = "redo" /\ pat.st = 3 -> [pat EXCEPT !.st = 4]
      [] OTHER -> [st |-> 0, a |-> 0, b |-> 0, live |-> 0]

\* what a call on History does to the variables of History and to the
\* record of calls; h is the history after the call
HistoryCalled(op, arg, ret, h) ==
    /\ records' = h.records
    /\ cursor' = h.cursor
    /\ h_calls' = LogCall(op, arg, ret, h.cursor # cursor)
    /\ pre_records' = records
    /\ pre_cursor' = cursor
    /\ discarded' = (discarded \ {arg})
                    \cup (Range(records) \ (Range(h.records) \cup {ret}))
    /\ pat' = PatNext(op, arg)

InitHist ==
    /\ records = history_new.records
    /\ cursor = history_new.cursor
    /\ live = EmptyWorld
    /\ is_loading_screen_active = FALSE
    /\ file_selected = None /\ menu_file_selected = None
    /\ next_id = 0 /\ h_calls = <<>>
    /\ pre_records = <<>> /\ pre_cursor = 0 /\ discarded = {}
    /\ pat = [st |-> 0, a |-> 0, b |-> 0, live |-> 0]
    /\ IdleTf /\ IdleBB /\ IdleAnno /\ IdleData /\ IdleClr /\ IdleStr /\ IdleRx /\ IdleIt

\* the menu (or a request of the http server) selects a file
SelectFile(f) ==
    /\ menu_file_selected' = Some(f)
    /\ UNCHANGED <<records, cursor, live, is_loading_screen_active,
                   file_selected, next_id, h_calls, pre_records, pre_cursor,
                   discarded, pat>>
    /\ UNCHANGED <<varsTf, varsBB, varsAnno, varsData, varsClr, varsStr, varsRx, varsIt>>

\* Ctrl+Z
Undo ==
    LET r == prev_world(History, live)
    IN  /\ HistoryCalled("undo", live, r.ret, r.h)
        /\ live' = r.ret
        /\ UNCHANGED <<is_loading_screen_active, file_selected,
                       menu_file_selected, next_id>>
        /\ UNCHANGED <<varsTf, varsBB, varsAnno, varsData, varsClr, varsStr, varsRx, varsIt>>

\* Ctrl+Y
Redo ==
    LET r == next_world(History, live)
    IN  /\ HistoryCalled("redo", live, r.ret, r.h)
        /\ live' = r.ret
        /\ UNCHANGED <<is_loading_screen_active, file_selected,
                       menu_file_selected, next_id>>
        /\ UNCHANGED <<varsTf, varsBB, varsAnno, varsData, varsClr, varsStr, varsRx, varsIt>>

\* the selected file differs from the loaded one: push the live image unless
\* the loading screen is shown, then show the image read (read_ok) or the
\* loading screen
LoadImage(read_ok) ==
    /\ file_selected # menu_file_selected
    /\ IsSome(menu_file_selected)
    /\ IF ~is_loading_screen_active
       THEN /\ Len(records) < MaxHist \/ cursor < Len(records)
            /\ HistoryCalled("push", live, live, history_push(History, live))
       ELSE UNCHANGED <<records, cursor, h_calls, pre_records, pre_cursor,
                        discarded, pat>>
    /\ IF read_ok
       THEN /\ file_selected' = menu_file_selected
            /\ is_loading_screen_active' = FALSE
            /\ live' = FileImage(Unwrap(menu_file_selected))
       ELSE /\ is_loading_screen_active' = TRUE
            /\ live' = LoadingImage
            /\ UNCHANGED file_selected
    /\ UNCHANGED <<menu_file_selected, next_id>>
    /\ UNCHANGED <<varsTf, varsBB, varsAnno, varsData, varsClr, varsStr, varsRx, varsIt>>

\* brush, left button held over the image: a point is added to the stroke
MouseHeld ==
    /\ next_id < MaxEdits
    /\ next_id' = next_id + 1
    /\ live' = EditedState(next_id + 1)
    /\ UNCHANGED <<records, cursor, is_loading_screen_active, file_selected,
                   menu_file_selected, h_calls, pre_records, pre_cursor,
                   discarded, pat>>
    /\ UNCHANGED <<varsTf, varsBB, varsAnno, varsData, varsClr, varsStr, varsRx, varsIt>>

\* brush, left button released: the world is pushed
MouseReleased ==
    /\ Len(records) < MaxHist \/ cursor < Len(records)
    /\ HistoryCalled("push", live, live, history_push(History, live))
    /\ UNCHANGED <<live, is_loading_screen_active, file_selected,
                   menu_file_selected, next_id>>
    /\ UNCHANGED <<varsTf, varsBB, varsAnno, varsData, varsClr, varsStr, varsRx, varsIt>>

\* brush, backspace: the strokes are cleared (a new state when there were
\* strokes) and the world is pushed
KeyPressed(had_points) ==
    /\ Len(records) < MaxHist \/ cursor < Len(records)
    /\ had_points => next_id < MaxEdits
    /\ LET cleared == IF had_points THEN EditedState(next_id + 1) ELSE live
       IN  /\ live' = cleared
           /\ HistoryCalled("push", cleared, cleared,
                            history_push(History, cleared))
    /\ next_id' = IF had_points THEN next_id + 1 ELSE next_id
    /\ UNCHANGED <<is_loading_screen_active, file_selected,
                   menu_file_selected>>
    /\ UNCHANGED <<varsTf, varsBB, varsAnno, varsData, varsClr, varsStr, varsRx, varsIt>>

NextHist ==
    \/ \E f \in 1..MaxFiles : SelectFile(f)
    \/ Undo
    \/ Redo
    \/ \E read_ok \in BOOLEAN : LoadImage(read_ok)
    \/ MouseHeld
    \/ MouseReleased
    \/ \E had_points \in BOOLEAN : KeyPressed(had_points)

SpecHist == InitHist /\ [][NextHist]_vars

LastCall == h_calls[Len(h_calls)]
PrevCall == h_calls[Len(h_calls) - 1]

\* C28: the loading placeholder never enters the history.  No history slot
\* holds the loading image, push is never called with it, and no undo or
\* redo that moves the cursor swaps it into a slot.
C28_LoadingNeverInHistory ==
    /\ \A i \in 1..Len(records) : records[i] # LoadingImage
    /\ \A i \in 1..Len(h_calls) :
          (h_calls[i].op = "push" \/ h_calls[i].moved)
              => h_calls[i].arg # LoadingImage

\* C4 as amended: an undo that has something to undo returns the snapshot
\* below the cursor, and the redo that directly follows it returns the
\* state that was live before the undo.  After push(A), push(B) the undo
\* yields A, and the directly following redo yields B when B was the live
\* state handed to the undo.
C4_UndoRedoOrder ==
    /\ (Len(h_calls) >= 1 /\ LastCall.op = "undo" /\ LastCall.moved) =>
            /\ LastCall.ret = pre_records[pre_cursor - 1]
            /\ cursor = pre_cursor - 1
            /\ records = [pre_records EXCEPT ![pre_cursor] = LastCall.arg]
    /\ (Len(h_calls) = 2 /\ PrevCall.op = "undo" /\ PrevCall.moved
            /\ LastCall.op = "redo") =>
            LastCall.ret = PrevCall.arg
    /\ pat.st >= 3 => PrevCall.op = "undo" \/ LastCall.op = "undo"
    /\ (pat.st = 3 /\ LastCall.op = "undo") => LastCall.ret = pat.a
    /\ (pat.st = 4 /\ pat.live = pat.b) =>
            PrevCall.ret = pat.a /\ LastCall.ret = pat.b

\* push(A), push(B), undo, redo have just been called, B being live at the undo
C4_Witness ==
    /\ pat.st = 4 /\ pat.live = pat.b /\ pat.a # pat.b
    /\ LastCall.op = "redo" /\ LastCall.ret = pat.b /\ live = pat.b

\* C4 as stated: after push(A), push(B), undo() yields A and the directly
\* following redo() yields B; an undo directly followed by a redo (the redo
\* is handed the state the undo returned) returns the state that was live
\* before the undo.
C4_Original ==
    /\ (pat.st = 4) => PrevCall.ret = pat.a /\ LastCall.ret = pat.b
    /\ (Len(h_calls) = 2 /\ PrevCall.op = "undo" /\ LastCall.op = "redo"
            /\ LastCall.arg = PrevCall.ret) =>
            LastCall.ret = PrevCall.arg

\* C5: undo with nothing to undo (empty history, or the cursor at the
\* oldest snapshot) and redo with nothing to redo (the cursor at the newest
\* snapshot) return the caller's state unchanged and leave the snapshots
\* and the cursor as they were.
C5_Underflow ==
    Len(h_calls) >= 1 =>
        /\ (LastCall.op = "undo" /\ pre_cursor <= 1) =>
                /\ LastCall.ret = LastCall.arg
                /\ records = pre_records /\ cursor = pre_cursor
        /\ (LastCall.op = "redo" /\ pre_cursor = Len(pre_records)) =>
                /\ LastCall.ret = LastCall.arg
                /\ records = pre_records /\ cursor = pre_cursor

\* an undo at the oldest snapshot while a different snapshot could be redone
C5_Witness ==
    /\ Len(h_calls) >= 1 /\ LastCall.op = "undo"
    /\ pre_cursor = 1 /\ Len(pre_records) = 2
    /\ pre_records[1] # LastCall.arg
    /\ live = LastCall.arg

\* C6: a push while the cursor is not at the newest snapshot discards every
\* snapshot beyond the cursor: the snapshots are then those up to the
\* cursor followed by the pushed one, the cursor is at the newest, a redo
\* that follows the push is a no-op, and a discarded snapshot is neither
\* held nor returned by History afterwards (unless the caller hands the
\* same state to History again).
C6_PushTruncates ==
    Len(h_calls) >= 1 =>
        /\ LastCall.op = "push" =>
                /\ records = Append(SubSeq(pre_records, 1, pre_cursor),
                                    LastCall.arg)
                /\ cursor = Len(records)
        /\ (Len(h_calls) = 2 /\ PrevCall.op = "push" /\ LastCall.op = "redo") =>
                /\ ~LastCall.moved
                /\ LastCall.ret = LastCall.arg
                /\ records = pre_records
        /\ discarded \cap Range(records) = {}
        /\ (LastCall.op # "push" /\ LastCall.moved) => LastCall.ret \notin discarded

\* a redo right after a push that threw an undone snapshot away
C6_Witness ==
    /\ Len(h_calls) = 2 /\ PrevCall.op = "push" /\ LastCall.op = "redo"
    /\ discarded # {}
    /\ Len(records) = cursor

---------------------------------------------------------------------------
(* Group resize of the selected boxes: bbox_annotations.rs resize_bbs and   *)
(* bbox_splitmode.rs.  A resize closure |bb| bb.shift_min(x, y, shape) is   *)
(* the tag "shift_min" with its arguments, a key closure |bb| bb.y_max()   *)
(* is the tag "y_max".                                                     *)

IndexSeq(n) == [i \in 1..n |-> i]

\* the indices of the selected boxes, ascending
true_indices(selected) ==
    SelectSeq(IndexSeq(Len(selected)), LAMBDA i : selected[i])

x_max(b) == b.x + b.w
y_max(b) == b.y + b.h

\* BB::extend_max(x_shift, y_shift, shape) as resize_bbs calls it: the max
\* corner moves by the shift, rejected when the result leaves the image
extend_max(b, x_shift, y_shift, shape) == shift_max(b, x_shift, y_shift, shape)

ApplyResize(kind, b, x_shift, y_shift, shape) ==
    IF kind = "shift_min" THEN shift_min(b, x_shift, y_shift, shape)
    ELSE shift_max(b, x_shift, y_shift, shape)

ApplyKey(key, b) ==
    CASE key = "x" -> b.x
      [] key = "y" -> b.y
      [] key = "x_max" -> x_max(b)
      [] key = "y_max" -> y_max(b)

\* for idx in inds: if let Some(bb) = resize(bbs[idx]) then bbs[idx] = bb
RECURSIVE resize_bbs_inds(_, _, _, _, _, _)
resize_bbs_inds(bs, inds, kind, x_shift, y_shift, shape) ==
    IF inds = <<>> THEN bs
    ELSE LET idx == Head(inds)
             r == ApplyResize(kind, bs[idx], x_shift, y_shift, shape)
         IN  resize_bbs_inds(IF IsSome(r) THEN [bs EXCEPT ![idx] = Unwrap(r)]
                             ELSE bs,
                             Tail(inds), kind, x_shift, y_shift, shape)

\* super::core::resize_bbs: the resize applied to the selected boxes
core_resize_bbs(bs, selected, kind, x_shift, y_shift, shape) ==
    resize_bbs_inds(bs, true_indices(selected), kind, x_shift, y_shift, shape)

\* a resize that does not look at the selection
resize_bbs_all(bs, selected, x_shift, y_shift, shape) ==
    [i \in 1..Len(bs) |->
        LET r == extend_max(bs[i], x_shift, y_shift, shape)
        IN  IF IsSome(r) THEN Unwrap(r) ELSE bs[i]]

\* bbox_annotations.rs resize_bbs: extend_max on every selected box, a
\* rejected box stays as it is
resize_bbs(bs, selected, x_shift, y_shift, shape) ==
    [i \in 1..Len(bs) |->
        LET r == extend_max(bs[i], x_shift, y_shift, shape)
        IN  IF selected[i] /\ IsSome(r) THEN Unwrap(r) ELSE bs[i]]

\* the flat_map of resize_bbs_by_key: for every selected box in turn, the
\* indices of all boxes whose candidate key equals its shiftee key
RECURSIVE opposite_shiftees(_, _, _, _)
opposite_shiftees(bs, inds, shiftee_key, candidate_key) ==
    IF inds = <<>> THEN <<>>
    ELSE SelectSeq(IndexSeq(Len(bs)),
                   LAMBDA i : ApplyKey(candidate_key, bs[i])
                              = ApplyKey(shiftee_key, bs[Head(inds)]))
         \o opposite_shiftees(bs, Tail(inds), shiftee_key, candidate_key)

resize_bbs_by_key(bs, selected, shiftee_key, candidate_key, kind, x_shift, y_shift, shape) ==
    resize_bbs_inds(bs,
                    opposite_shiftees(bs, true_indices(selected),
                                      shiftee_key, candidate_key),
                    kind, x_shift, y_shift, shape)

SplitModes == {"Horizontal", "Vertical", "None"}

zero_direction(mode, x_shift, y_shift) ==
    CASE mode = "Horizontal" -> <<0, y_shift>>
      [] mode = "Vertical" -> <<x_shift, 0>>
      [] mode = "None" -> <<x_shift, y_shift>>

shift_min_bbs(mode, x_shift, y_shift, selected, bs, shape) ==
    LET z == zero_direction(mode, x_shift, y_shift)
        pushed ==
            CASE mode = "Horizontal" ->
                    resize_bbs_by_key(bs, selected, "y", "y_max", "shift_max",
                                      z[1], z[2], shape)
              [] mode = "Vertical" ->
                    resize_bbs_by_key(bs, selected, "x", "x_max", "shift_max",
                                      z[1], z[2], shape)
              [] mode = "None" -> bs
    IN  core_resize_bbs(pushed, selected, "shift_min", z[1], z[2], shape)

\* shift_max_bbs that never pushes the neighbours
shift_max_bbs_no_split(mode, x_shift, y_shift, selected, bs, shape) ==
    LET z == zero_direction(mode, x_shift, y_shift)
    IN  core_resize_bbs(bs, selected, "shift_max", z[1], z[2], shape)

shift_max_bbs(mode, x_shift, y_shift, selected, bs, shape) ==
    LET z == zero_direction(mode, x_shift, y_shift)
        pushed ==
            CASE mode = "Horizontal" ->
                    resize_bbs_by_key(bs, selected, "y_max", "y", "shift_min",
                                      z[1], z[2], shape)
              [] mode = "Vertical" ->
                    resize_bbs_by_key(bs, selected, "x_max", "x", "shift_min",
                                      z[1], z[2], shape)
              [] mode = "None" -> bs
    IN  core_resize_bbs(pushed, selected, "shift_max", z[1], z[2], shape)

---------------------------------------------------------------------------
(* The resize machine: boxes of one image with a selection, resized as a   *)
(* group.                                                                  *)

Resizes == (0 - MaxResize)..MaxResize

SeqsUpTo(S, n) == UNION {[1..k -> S] : k \in 1..n}

\* the boxes that the checked constructor accepts for an image of `shape`
CheckedBoxes(shape) ==
    {b \in BoxesIn(shape) :
        IsSome(new_shape_checked(b.x, b.y, b.w, b.h, shape))}

InitResize ==
    /\ anno_shape \in {Shape(MaxAnnoShort, MaxAnnoLong),
                       Shape(MaxAnnoLong, MaxAnnoShort)}
    /\ bbs \in SeqsUpTo(CheckedBoxes(anno_shape), MaxBoxes)
    /\ selected_bbs \in [1..Len(bbs) -> BOOLEAN]
    /\ labels = <<>> /\ colors = <<>> /\ panicked = FALSE
    /\ anno_op = [name |-> "none", mode |-> "None", x_shift |-> 0,
                  y_shift |-> 0, idx |-> 0]
    /\ anno_changed = {}
    /\ IdleTf /\ IdleBB /\ IdleHist /\ IdleData /\ IdleClr /\ IdleStr /\ IdleRx /\ IdleIt

Resized(name, mode, x_shift, y_shift, new_bbs) ==
    /\ bbs' = new_bbs
    /\ anno_op' = [name |-> name, mode |-> mode, x_shift |-> x_shift,
                   y_shift |-> y_shift, idx |-> 0]
    /\ anno_changed' = {i \in 1..Len(bbs) : new_bbs[i] # bbs[i]}
    /\ UNCHANGED <<selected_bbs, labels, colors, anno_shape, panicked>>
    /\ UNCHANGED <<varsTf, varsBB, varsHist, varsData, varsClr, varsStr, varsRx, varsIt>>

\* BboxAnnotations::resize_bbs
ResizeBbs(x_shift, y_shift) ==
    Resized("resize_bbs", "None", x_shift, y_shift,
            resize_bbs(bbs, selected_bbs, x_shift, y_shift, anno_shape))

ShiftMinBbs(mode, x_shift, y_shift) ==
    Resized("shift_min_bbs", mode, x_shift, y_shift,
            shift_min_bbs(mode, x_shift, y_shift, selected_bbs, bbs, anno_shape))

ShiftMaxBbs(mode, x_shift, y_shift) ==
    Resized("shift_max_bbs", mode, x_shift, y_shift,
            shift_max_bbs(mode, x_shift, y_shift, selected_bbs, bbs, anno_shape))

NextResize ==
    \/ \E dx \in Resizes, dy \in Resizes : ResizeBbs(dx, dy)
    \/ \E mode \in SplitModes, dx \in Resizes, dy \in Resizes :
            ShiftMinBbs(mode, dx, dy)
    \/ \E mode \in SplitModes, dx \in Resizes, dy \in Resizes :
            ShiftMaxBbs(mode, dx, dy)

SpecResize == InitResize /\ [][NextResize]_vars

\* BboxAnnotations::selected_follow_movement: the boxes after the call
selected_follow_movement(bs, selected, mpso, mpo, orig_shape) ==
    [i \in 1..Len(bs) |->
        IF selected[i]
        THEN LET bb_moved == follow_movement(bs[i], mpso, mpo, orig_shape)
             IN  IF IsSome(bb_moved) THEN Unwrap(bb_moved) ELSE bs[i]
        ELSE bs[i]]

MousePositions == (0..MaxMouse) \X (0..MaxMouse)

SelectedFollowMovement(mpso, mpo) ==
    Resized("selected_follow_movement", "None",
            mpo[1] - mpso[1], mpo[2] - mpso[2],
            selected_follow_movement(bbs, selected_bbs, mpso, mpo, anno_shape))

NextFollow ==
    \E mpso \in MousePositions, mpo \in MousePositions :
        SelectedFollowMovement(mpso, mpo)

SpecFollow == InitResize /\ [][NextFollow]_vars

\* the translation of box b by (dx, dy), and whether it stays inside shape
Translated(b, dx, dy) == MkBB(b.x + dx, b.y + dy, b.w, b.h)
StaysInside(b, shape) ==
    /\ b.x >= 0 /\ b.y >= 0
    /\ b.x + b.w <= shape.w /\ b.y + b.h <= shape.h

\* C19: selected_follow_movement(from, to, shape) decides per box: every
\* unselected box is unchanged; every selected box becomes its translation
\* by (to - from), with unchanged w and h, when that translation stays
\* inside shape, and is left exactly as it was otherwise; a rejected
\* selected box does not prevent the other selected boxes from moving.
C19_SelectedFollowMovement ==
    [][anno_op'.name = "selected_follow_movement" =>
        /\ Len(bbs') = Len(bbs)
        /\ selected_bbs' = selected_bbs
        /\ \A i \in 1..Len(bbs) :
               LET moved == Translated(bbs[i], anno_op'.x_shift, anno_op'.y_shift)
               IN  IF selected_bbs[i] /\ StaysInside(moved, anno_shape)
                   THEN bbs'[i] = moved
                   ELSE bbs'[i] = bbs[i]]_vars

\* the last step was resize_bbs, or shift_min_bbs / shift_max_bbs without
\* split mode
PlainResizeStep ==
    \/ anno_op'.name = "resize_bbs"
    \/ anno_op'.name \in {"shift_min_bbs", "shift_max_bbs"}
       /\ anno_op'.mode = "None"

\* C7: resize_bbs, and shift_min_bbs / shift_max_bbs in SplitMode::None,
\* leave the geometry of every unselected box unchanged and keep the number
\* and the order of the boxes.
C7_UnselectedUntouched ==
    [][PlainResizeStep =>
        /\ Len(bbs') = Len(bbs)
        /\ \A i \in 1..Len(bbs) : ~selected_bbs[i] => bbs'[i] = bbs[i]]_vars

\* a group resize without split mode changed a selected box next to an
\* unselected one
C7_Witness ==
    /\ anno_op.name \in {"resize_bbs", "shift_min_bbs", "shift_max_bbs"}
    /\ anno_op.mode = "None"
    /\ anno_changed # {}
    /\ \E i \in 1..Len(bbs) : ~selected_bbs[i]

\* the direct resize of a split-mode step, the resize of the pushed
\* neighbours, and the keys that find them
SplitDirect(name) == IF name = "shift_max_bbs" THEN "shift_max" ELSE "shift_min"
SplitOpposite(name) == IF name = "shift_max_bbs" THEN "shift_min" ELSE "shift_max"
SplitShifteeKey(name, mode) ==
    CASE name = "shift_max_bbs" /\ mode = "Horizontal" -> "y_max"
      [] name = "shift_max_bbs" /\ mode = "Vertical" -> "x_max"
      [] name = "shift_min_bbs" /\ mode = "Horizontal" -> "y"
      [] name = "shift_min_bbs" /\ mode = "Vertical" -> "x"
SplitCandidateKey(name, mode) ==
    CASE name = "shift_max_bbs" /\ mode = "Horizontal" -> "y"
      [] name = "shift_max_bbs" /\ mode = "Vertical" -> "x"
      [] name = "shift_min_bbs" /\ mode = "Horizontal" -> "y_max"
      [] name = "shift_min_bbs" /\ mode = "Vertical" -> "x_max"

SplitStep ==
    /\ anno_op'.name \in {"shift_min_bbs", "shift_max_bbs"}
    /\ anno_op'.mode \in {"Horizontal", "Vertical"}

\* box i is selected and its moved edge is the near edge of box j
SharedEdge(bs, i, j, name, mode) ==
    ApplyKey(SplitCandidateKey(name, mode), bs[j])
        = ApplyKey(SplitShifteeKey(name, mode), bs[i])

\* the resize `kind` of the step anno_op' is accepted for box b
Accepted(kind, b) ==
    LET z == zero_direction(anno_op'.mode, anno_op'.x_shift, anno_op'.y_shift)
    IN  IsSome(ApplyResize(kind, b, z[1], z[2], anno_shape))

---------------------------------------------------------------------------
(* bbox_annotations.rs: BboxAnnotations.  An annotation store is the        *)
(* record [bbs, labels, colors, selected_bbs, panicked]; panicked is set    *)
(* by an operation that indexes a vector out of bounds, with the fields     *)
(* as the assignments before the panic left them.  Colors are numbers,      *)
(* White being [255, 255, 255].                                            *)

White == 0

Annos(b, l, c, s, p) ==
    [bbs |-> b, labels |-> l, colors |-> c, selected_bbs |-> s, panicked |-> p]

RemoveAt(s, i) == SubSeq(s, 1, i - 1) \o SubSeq(s, i + 1, Len(s))

annos_new(b) ==
    Annos(b, [i \in 1..Len(b) |-> ""], [i \in 1..Len(b) |-> White],
          [i \in 1..Len(b) |-> FALSE], FALSE)

\* remove(box_idx), box_idx counted from 1
annos_remove(a, box_idx) ==
    IF box_idx > Len(a.labels) THEN [a EXCEPT !.panicked = TRUE]
    ELSE IF box_idx > Len(a.colors)
    THEN [a EXCEPT !.labels = RemoveAt(a.labels, box_idx), !.panicked = TRUE]
    ELSE IF box_idx > Len(a.selected_bbs)
    THEN [a EXCEPT !.labels = RemoveAt(a.labels, box_idx),
                   !.colors = RemoveAt(a.colors, box_idx), !.panicked = TRUE]
    ELSE IF box_idx > Len(a.bbs)
    THEN [a EXCEPT !.labels = RemoveAt(a.labels, box_idx),
                   !.colors = RemoveAt(a.colors, box_idx),
                   !.selected_bbs = RemoveAt(a.selected_bbs, box_idx),
                   !.panicked = TRUE]
    ELSE Annos(RemoveAt(a.bbs, box_idx), RemoveAt(a.labels, box_idx),
               RemoveAt(a.colors, box_idx), RemoveAt(a.selected_bbs, box_idx),
               FALSE)

\* the indices of the boxes that are not selected, ascending
keep_indices(selected) ==
    SelectSeq(IndexSeq(Len(selected)), LAMBDA i : ~selected[i])

Pick(s, inds) == [k \in 1..Len(inds) |-> s[inds[k]]]
InBounds(s, inds) == \A k \in 1..Len(inds) : inds[k] <= Len(s)

\* the labels after mem::take took those of the kept indices that come
\* before the first index out of bounds
TakenUntilPanic(l, keep) ==
    [i \in 1..Len(l) |->
        IF \E k \in 1..Len(keep) :
              /\ keep[k] = i
              /\ \A m \in 1..k : keep[m] <= Len(l)
        THEN "" ELSE l[i]]

remove_selected(a) ==
    LET keep == keep_indices(a.selected_bbs)
    IN  IF ~InBounds(a.bbs, keep) THEN [a EXCEPT !.panicked = TRUE]
        ELSE IF ~InBounds(a.labels, keep)
        THEN [a EXCEPT !.bbs = Pick(a.bbs, keep),
                       !.labels = TakenUntilPanic(a.labels, keep),
                       !.panicked = TRUE]
        ELSE IF ~InBounds(a.colors, keep)
        THEN [a EXCEPT !.bbs = Pick(a.bbs, keep),
                       !.labels = Pick(a.labels, keep),
                       !.panicked = TRUE]
        ELSE Annos(Pick(a.bbs, keep), Pick(a.labels, keep),
                   Pick(a.colors, keep),
                   [i \in 1..Len(keep) |-> FALSE], FALSE)

\* add_bb; new_clr is the color new_color(&self.colors) draws
add_bb(a, b, label, new_clr) ==
    IF ~(\E i \in 1..Len(a.labels) : a.labels[i] = label)
    THEN Annos(Append(a.bbs, b), Append(a.labels, label),
               Append(a.colors, new_clr), Append(a.selected_bbs, FALSE), FALSE)
    ELSE Annos(Append(a.bbs, b), a.labels, a.colors,
               Append(a.selected_bbs, FALSE), FALSE)

deselect(a, box_idx) == [a EXCEPT !.selected_bbs[box_idx] = FALSE]
toggle_selection(a, box_idx) ==
    [a EXCEPT !.selected_bbs[box_idx] = ~a.selected_bbs[box_idx]]
select(a, box_idx) == [a EXCEPT !.selected_bbs[box_idx] = TRUE]

annos_clear(a) == Annos(<<>>, <<>>, <<>>, <<>>, FALSE)

\* set_label; new_clr is the color new_color(&self.colors) draws
set_label(a, idx, label, new_clr) ==
    LET found == {i \in 1..Len(a.labels) : a.labels[i] = label}
        exist_idx == CHOOSE i \in found : \A k \in found : i <= k
    IN  IF found # {}
        THEN IF idx > Len(a.colors) THEN [a EXCEPT !.panicked = TRUE]
             ELSE IF idx > Len(a.labels)
             THEN [a EXCEPT !.colors[idx] = a.colors[exist_idx],
                            !.panicked = TRUE]
             ELSE [a EXCEPT !.colors[idx] = a.colors[exist_idx],
                            !.labels[idx] = a.labels[exist_idx]]
        ELSE IF idx > Len(a.labels) THEN [a EXCEPT !.panicked = TRUE]
             ELSE IF idx > Len(a.colors)
             THEN [a EXCEPT !.labels[idx] = label, !.panicked = TRUE]
             ELSE [a EXCEPT !.labels[idx] = label, !.colors[idx] = new_clr]

---------------------------------------------------------------------------
(* The annotation machine: one BboxAnnotations and the calls on it.        *)

AnnoBoxes == CheckedBoxes(Shape(3, 2))
AnnoLabels == {"", "a"}
AnnoColors == {White, 1}

TheAnnos == Annos(bbs, labels, colors, selected_bbs, panicked)

InitAnno ==
    /\ anno_shape = Shape(3, 2)
    /\ \E b \in {<<>>} \cup SeqsUpTo(AnnoBoxes, MaxAnnos) :
          /\ bbs = annos_new(b).bbs
          /\ labels = annos_new(b).labels
          /\ colors = annos_new(b).colors
          /\ selected_bbs = annos_new(b).selected_bbs
          /\ panicked = annos_new(b).panicked
    /\ anno_op = [name |-> "new", mode |-> "None", x_shift |-> 0,
                  y_shift |-> 0, idx |-> 0]
    /\ anno_changed = {}
    /\ IdleTf /\ IdleBB /\ IdleHist /\ IdleData /\ IdleClr /\ IdleStr /\ IdleRx /\ IdleIt

\* a call on the store: it runs unless an earlier call panicked
AnnoCalled(name, idx, a) ==
    /\ ~panicked
    /\ bbs' = a.bbs
    /\ labels' = a.labels
    /\ colors' = a.colors
    /\ selected_bbs' = a.selected_bbs
    /\ panicked' = a.panicked
    /\ anno_op' = [name |-> name, mode |-> "None", x_shift |-> 0,
                   y_shift |-> 0, idx |-> idx]
    /\ UNCHANGED <<anno_shape, anno_changed>>
    /\ UNCHANGED <<varsTf, varsBB, varsHist, varsData, varsClr, varsStr, varsRx, varsIt>>

AddBB(b, label, new_clr) ==
    /\ Len(bbs) < MaxAnnos
    /\ AnnoCalled("add_bb", 0, add_bb(TheAnnos, b, label, new_clr))

Remove(box_idx) ==
    AnnoCalled("remove", box_idx, annos_remove(TheAnnos, box_idx))

RemoveSelected ==
    AnnoCalled("remove_selected", 0, remove_selected(TheAnnos))

Select(box_idx) ==
    AnnoCalled("select", box_idx, select(TheAnnos, box_idx))

Deselect(box_idx) ==
    AnnoCalled("deselect", box_idx, deselect(TheAnnos, box_idx))

ToggleSelection(box_idx) ==
    AnnoCalled("toggle_selection", box_idx, toggle_selection(TheAnnos, box_idx))

SetLabel(idx, label, new_clr) ==
    AnnoCalled("set_label", idx, set_label(TheAnnos, idx, label, new_clr))

Clear ==
    AnnoCalled("clear", 0, annos_clear(TheAnnos))

NextAnno ==
    \/ \E b \in AnnoBoxes, label \in AnnoLabels, new_clr \in AnnoColors :
            AddBB(b, label, new_clr)
    \/ \E box_idx \in 1..Len(bbs) : Remove(box_idx)
    \/ RemoveSelected
    \/ \E box_idx \in 1..Len(bbs) : Select(box_idx)
    \/ \E box_idx \in 1..Len(bbs) : Deselect(box_idx)
    \/ \E box_idx \in 1..Len(bbs) : ToggleSelection(box_idx)
    \/ \E idx \in 1..Len(bbs), label \in AnnoLabels, new_clr \in AnnoColors :
            SetLabel(idx, label, new_clr)
    \/ Clear

SpecAnno == InitAnno /\ [][NextAnno]_vars

\* C8: remove_selected keeps exactly the unselected boxes, in their
\* original relative order, each with its own label and color, and the
\* selection afterwards has the new length and is all false.
C8_RemoveSelectedKeeps ==
    [][anno_op'.name = "remove_selected" =>
        LET keep == keep_indices(selected_bbs)
        IN  /\ ~panicked'
            /\ Len(bbs') = Len(keep)
            /\ \A k \in 1..Len(keep) :
                  /\ bbs'[k] = bbs[keep[k]]
                  /\ Len(labels') >= k /\ labels'[k] = labels[keep[k]]
                  /\ Len(colors') >= k /\ colors'[k] = colors[keep[k]]
            /\ selected_bbs' = [k \in 1..Len(keep) |-> FALSE]]_vars

\* C23: in every state reached from BboxAnnotations::new(bbs) by add_bb,
\* remove(idx < len), remove_selected, set_label, select, deselect,
\* toggle_selection and clear, the boxes, the labels, the colors and the
\* selection flags have the same length.
C23_ArraysAligned ==
    ~panicked =>
        /\ Len(labels) = Len(bbs)
        /\ Len(colors) = Len(bbs)
        /\ Len(selected_bbs) = Len(bbs)

---------------------------------------------------------------------------
(* bbox_data.rs: the label table of BboxSpecificData.  A table is the      *)
(* record [labels, colors, cat_ids, cat_idx_current, annotations_map,     *)
(* panicked]; category indices count from 0 as in the source.              *)
(* annotations_map is a function from the files that have annotations to   *)
(* their BboxAnnotations, here the record [bbs, cat_idxs].                 *)

DEFAULT_LABEL == "foreground"

BboxData(l, c, ids, cur, map, p) ==
    [labels |-> l, colors |-> c, cat_ids |-> ids, cat_idx_current |-> cur,
     annotations_map |-> map, panicked |-> p]

EmptyMap == [f \in {} |-> <<>>]

\* the annotations of one file: its boxes and their category indices
CatAnnos(b, c) == [bbs |-> b, cat_idxs |-> c]

\* BboxAnnotations::add_bb(bb, cat_idx)
cat_add_bb(annos, b, cat_idx) ==
    CatAnnos(Append(annos.bbs, b), Append(annos.cat_idxs, cat_idx))

\* a removed category: every index greater than it moves down by one
reduce_cat_idxs(annos, cat_idx) ==
    [annos EXCEPT !.cat_idxs =
        [i \in 1..Len(annos.cat_idxs) |->
            IF annos.cat_idxs[i] > cat_idx THEN annos.cat_idxs[i] - 1
            ELSE annos.cat_idxs[i]]]

Contains(s, x) == \E i \in 1..Len(s) : s[i] = x
SeqMax(s) == CHOOSE x \in Range(s) : \A y \in Range(s) : y <= x

bbox_data_new ==
    BboxData(<<DEFAULT_LABEL>>, <<White>>, <<1>>, 0, EmptyMap, FALSE)

\* push; new_clr is the color new_color(&self.colors) draws
bbox_push(d, label, color, cat_id, new_clr) ==
    IF Contains(d.labels, label) THEN [d |-> d, ret |-> "Err"]
    ELSE
    LET d1 == [d EXCEPT !.labels = Append(@, label)]
        d2 == [d1 EXCEPT !.colors = Append(@, IF IsSome(color)
                                              THEN Unwrap(color) ELSE new_clr)]
        d3 == [d2 EXCEPT !.cat_ids =
                  Append(@, IF IsSome(cat_id) THEN Unwrap(cat_id)
                            ELSE IF d.cat_ids # <<>>
                            THEN SeqMax(d.cat_ids) + 1 ELSE 1)]
    IN  IF IsSome(color) /\ Contains(d.colors, Unwrap(color))
        THEN [d |-> d1, ret |-> "Err"]
        ELSE IF IsSome(cat_id) /\ Contains(d.cat_ids, Unwrap(cat_id))
        THEN [d |-> d2, ret |-> "Err"]
        ELSE [d |-> d3, ret |-> "Ok"]

remove_catidx(d, cat_idx) ==
    IF Len(d.labels) > 1
    THEN IF cat_idx >= Len(d.labels) THEN [d EXCEPT !.panicked = TRUE]
         ELSE IF cat_idx >= Len(d.colors)
         THEN [d EXCEPT !.labels = RemoveAt(@, cat_idx + 1),
                        !.panicked = TRUE]
         ELSE IF cat_idx >= Len(d.cat_ids)
         THEN [d EXCEPT !.labels = RemoveAt(@, cat_idx + 1),
                        !.colors = RemoveAt(@, cat_idx + 1),
                        !.panicked = TRUE]
         ELSE [d EXCEPT !.labels = RemoveAt(@, cat_idx + 1),
                        !.colors = RemoveAt(@, cat_idx + 1),
                        !.cat_ids = RemoveAt(@, cat_idx + 1),
                        !.cat_idx_current =
                            IF @ >= Max(cat_idx, 1) THEN @ - 1 ELSE @,
                        !.annotations_map =
                            [f \in DOMAIN @ |-> reduce_cat_idxs(@[f], cat_idx)]]
    ELSE d

\* get_annos_mut(file_path): the annotations of the file, which are made
\* empty first when the file has none
get_annos_mut(map, f) ==
    IF f \in DOMAIN map THEN map[f] ELSE CatAnnos(<<>>, <<>>)

\* get_annos_mut(file_path).add_bb(bb, cat_idx)
data_add_bb(d, f, b, cat_idx) ==
    [d EXCEPT !.annotations_map =
        [g \in DOMAIN @ \cup {f} |->
            IF g = f THEN cat_add_bb(get_annos_mut(@, f), b, cat_idx)
            ELSE @[g]]]

\* some annotation of the map refers to a category the table does not have
HasBadCatIdx(map, len) ==
    \E f \in DOMAIN map :
        \E i \in 1..Len(map[f].cat_idxs) : map[f].cat_idxs[i] >= len

\* set_annotations_map that lets the index labels.len() pass
set_annotations_map_off_by_one(d, map) ==
    IF HasBadCatIdx(map, Len(d.labels) + 1) THEN [d |-> d, ret |-> "Err"]
    ELSE [d |-> [d EXCEPT !.annotations_map = map], ret |-> "Ok"]

set_annotations_map(d, map) ==
    IF HasBadCatIdx(map, Len(d.labels)) THEN [d |-> d, ret |-> "Err"]
    ELSE [d |-> [d EXCEPT !.annotations_map = map], ret |-> "Ok"]

\* BboxExportData: the table and, for every file, its boxes and their
\* category indices as to_data gives them
BboxExportData(l, c, ids, annos) ==
    [labels |-> l, colors |-> c, cat_ids |-> ids, annotations |-> annos]

from_bbox_data(d) ==
    BboxExportData(d.labels, d.colors, d.cat_ids,
                   [f \in DOMAIN d.annotations_map |->
                       <<d.annotations_map[f].bbs,
                         d.annotations_map[f].cat_idxs>>])

\* the pushes of from_bbox_export_data from the i-th zipped entry on, the
\* zip ending with the shortest of labels, colors and cat_ids
RECURSIVE push_zipped(_, _, _)
push_zipped(d, input, i) ==
    IF i > Min(Len(input.labels), Min(Len(input.colors), Len(input.cat_ids)))
    THEN [d |-> d, ret |-> "Ok"]
    ELSE LET r == bbox_push(d, input.labels[i], Some(input.colors[i]),
                            Some(input.cat_ids[i]), White)
         IN  IF r.ret = "Err" THEN r ELSE push_zipped(r.d, input, i + 1)

from_bbox_export_data(input) ==
    LET pushed == push_zipped(BboxData(<<>>, <<>>, <<>>, 0, EmptyMap, FALSE),
                              input, 1)
        map == [f \in DOMAIN input.annotations |->
                   CatAnnos(input.annotations[f][1], input.annotations[f][2])]
    IN  IF pushed.ret = "Err" THEN pushed
        ELSE set_annotations_map(pushed.d, map)

---------------------------------------------------------------------------
(* The label table machine: one BboxSpecificData made by new() and the     *)
(* calls on it.                                                            *)

CatLabels == {DEFAULT_LABEL, "a", "b"}
CatColors == {White, 1}
CatIds == 1..MaxCatId

TheData ==
    BboxData(data_labels, data_colors, cat_ids, cat_idx_current,
             annotations_map, data_panicked)

InitData ==
    /\ data_labels = bbox_data_new.labels
    /\ data_colors = bbox_data_new.colors
    /\ cat_ids = bbox_data_new.cat_ids
    /\ cat_idx_current = bbox_data_new.cat_idx_current
    /\ data_panicked = bbox_data_new.panicked
    /\ annotations_map = bbox_data_new.annotations_map
    /\ data_op = [name |-> "new", arg |-> <<>>, ret |-> "Ok"]
    /\ IdleTf /\ IdleBB /\ IdleHist /\ IdleAnno /\ IdleClr /\ IdleStr /\ IdleRx /\ IdleIt

\* a call on the table: it runs unless an earlier call panicked
DataCalled(name, arg, r) ==
    /\ ~data_panicked
    /\ data_labels' = r.d.labels
    /\ data_colors' = r.d.colors
    /\ cat_ids' = r.d.cat_ids
    /\ cat_idx_current' = r.d.cat_idx_current
    /\ data_panicked' = r.d.panicked
    /\ annotations_map' = r.d.annotations_map
    /\ data_op' = [name |-> name, arg |-> arg, ret |-> r.ret]
    /\ UNCHANGED <<varsTf, varsBB, varsHist, varsAnno, varsClr, varsStr, varsRx, varsIt>>

Push(label, color, cat_id, new_clr) ==
    LET r == bbox_push(TheData, label, color, cat_id, new_clr)
    IN  /\ Len(data_labels) < MaxCats
        /\ \A i \in 1..Len(r.d.cat_ids) : r.d.cat_ids[i] <= MaxCatId
        /\ DataCalled("push", <<label, color, cat_id>>, r)

RemoveCatidx(cat_idx) ==
    DataCalled("remove_catidx", <<cat_idx>>,
               [d |-> remove_catidx(TheData, cat_idx), ret |-> "Ok"])

\* the menu makes an existing category the current one
SelectCat(cat_idx) ==
    DataCalled("select", <<cat_idx>>,
               [d |-> [TheData EXCEPT !.cat_idx_current = cat_idx],
                ret |-> "Ok"])

DataFiles == {"f1", "f2"}
DataBoxes == {MkBB(0, 0, 1, 1), MkBB(1, 0, 1, 2)}

\* the maps an import can bring: any category index, valid or not
AnnosUpTo(n) ==
    UNION {{CatAnnos(b, c) : b \in [1..k -> DataBoxes],
                             c \in [1..k -> 0..MaxCats]} : k \in 0..n}
DataMaps == UNION {[fs -> AnnosUpTo(MaxFileAnnos)] : fs \in SUBSET DataFiles}

\* an annotation with an existing category is added to a file
AddAnno(f, b, cat_idx) ==
    /\ Len(get_annos_mut(annotations_map, f).bbs) < MaxFileAnnos
    /\ cat_idx < Len(data_labels)
    /\ DataCalled("add_bb", <<f, b, cat_idx>>,
                  [d |-> data_add_bb(TheData, f, b, cat_idx), ret |-> "Ok"])

\* the category indices of all annotations of the map
CatIdxsOf(map) ==
    UNION {Range(map[f].cat_idxs) : f \in DOMAIN map}

\* data_op keeps of the map its category indices, and the map itself when
\* the call returned Ok
SetAnnotationsMap(map) ==
    LET r == set_annotations_map(TheData, map)
    IN  DataCalled("set_annotations_map",
                   <<CatIdxsOf(map), IF r.ret = "Ok" THEN map ELSE EmptyMap>>,
                   r)

NextData ==
    \/ \E label \in CatLabels,
          color \in {None} \cup {Some(c) : c \in CatColors},
          cat_id \in {None} \cup {Some(k) : k \in CatIds},
          new_clr \in CatColors :
            Push(label, color, cat_id, new_clr)
    \/ \E cat_idx \in 0..(Len(data_labels) - 1) : RemoveCatidx(cat_idx)
    \/ \E cat_idx \in 0..(Len(data_labels) - 1) : SelectCat(cat_idx)

SpecData == InitData /\ [][NextData]_vars

\* C27: in every state reached from new() by push, selecting an existing
\* category and remove_catidx(k) with k < labels.len(), the current
\* category index is below labels.len() and the label table is not empty.
C27_CurrentCatValid ==
    /\ Len(data_labels) >= 1
    /\ cat_idx_current < Len(data_labels)

\* C27, second half: removing a category with a lower index than the
\* current one leaves the current index on the same label.
C27_CurrentCatKept ==
    [][(data_op'.name = "remove_catidx" /\ data_op'.arg[1] < cat_idx_current)
        => /\ cat_idx_current' < Len(data_labels')
           /\ data_labels'[cat_idx_current' + 1]
                = data_labels[cat_idx_current + 1]]_vars

\* a color that is not in the table
FreshColor(clrs) == CHOOSE c \in 0..MaxCats : ~Contains(clrs, c)

\* The table together with the annotations of the files: labels are pushed
\* with a drawn color or with the color of the default label, categories
\* are removed, annotations are added and annotation maps are imported.
NextDataMap ==
    \/ \E label \in CatLabels, color \in {None, Some(White)} :
            Push(label, color, None, FreshColor(data_colors))
    \/ \E cat_idx \in 0..(Len(data_labels) - 1) : RemoveCatidx(cat_idx)
    \/ \E f \in DataFiles, b \in DataBoxes, cat_idx \in 0..(MaxCats - 1) :
            AddAnno(f, b, cat_idx)
    \/ \E map \in DataMaps : SetAnnotationsMap(map)

SpecDataMap == InitData /\ [][NextDataMap]_vars

\* C10: label table alignment.  In every state reached from new() by push
\* calls, successful or failing, and remove_catidx calls, labels, colors
\* and cat_ids have the same length.
C10_TableAligned ==
    /\ Len(data_labels) = Len(data_colors)
    /\ Len(data_colors) = Len(cat_ids)

\* what push was called with
PushLabel == data_op'.arg[1]
PushColor == data_op'.arg[2]
PushCatId == data_op'.arg[3]

\* the label, the given color or the given cat_id is in the table already
PushConflict ==
    \/ Contains(data_labels, PushLabel)
    \/ IsSome(PushColor) /\ Contains(data_colors, Unwrap(PushColor))
    \/ IsSome(PushCatId) /\ Contains(cat_ids, Unwrap(PushCatId))

\* C11: push returns an error, and never panics, when the label, an
\* explicitly given color or an explicitly given cat_id already exists, and
\* in every error case labels, colors and cat_ids are as before the call.
C11_PushErrorKeepsTable ==
    [][data_op'.name = "push" =>
        /\ ~data_panicked'
        /\ PushConflict => data_op'.ret = "Err"
        /\ data_op'.ret = "Err" =>
              /\ data_labels' = data_labels
              /\ data_colors' = data_colors
              /\ cat_ids' = cat_ids]_vars

\* C12: category index range.  In every state reached by push, adding
\* annotations with a valid category index, a successful
\* set_annotations_map and remove_catidx(k) with k < labels.len(), every
\* annotation of every file has cat_idx < labels.len().
C12_CatIdxInRange ==
    \A f \in DOMAIN annotations_map :
        \A i \in 1..Len(annotations_map[f].cat_idxs) :
            annotations_map[f].cat_idxs[i] < Len(data_labels)

\* C13: set_annotations_map(map) returns an error exactly when some
\* annotation of map has cat_idx >= labels.len(); on error the stored
\* annotations_map is unchanged, on success it equals map.
C13_SetAnnotationsMap ==
    [][data_op'.name = "set_annotations_map" =>
        /\ data_op'.ret = "Err" <=>
              \E cat_idx \in data_op'.arg[1] : cat_idx >= Len(data_labels)
        /\ data_op'.ret = "Err" => annotations_map' = annotations_map
        /\ data_op'.ret = "Ok" => annotations_map' = data_op'.arg[2]
        /\ data_labels' = data_labels /\ ~data_panicked']_vars

\* an import was rejected while annotations were stored, and one replaced
\* the stored annotations
C13_Witness ==
    /\ data_op.name = "set_annotations_map"
    /\ \/ data_op.ret = "Err" /\ annotations_map # EmptyMap
       \/ /\ data_op.ret = "Ok" /\ DOMAIN annotations_map = DataFiles
          /\ \A f \in DataFiles : annotations_map[f].cat_idxs = <<1>>

\* what importing the export of the table gives
Reimported == from_bbox_export_data(from_bbox_data(TheData))

\* C14: export/import round trip.  For every table reached from new() by
\* push, remove_catidx and adding annotations, importing its export
\* succeeds and yields the same labels, colors, cat_ids and the same boxes
\* and category indices of every file.
C14_ExportImportRoundTrip ==
    ~data_panicked =>
        /\ Reimported.ret = "Ok"
        /\ Reimported.d.labels = data_labels
        /\ Reimported.d.colors = data_colors
        /\ Reimported.d.cat_ids = cat_ids
        /\ Reimported.d.annotations_map = annotations_map

---------------------------------------------------------------------------
(* domain.rs: new_fit_to_image, center_scale, zoom_box_mouse_wheel.  The   *)
(* wheel delta is counted in halves, so the clipped delta d is one of      *)
(* -2..2 and factor = 1.0 - d * 0.1 is (FactorDen - d) / FactorDen.  The   *)
(* f32 evaluation of center_scale gives, for boxes in images of up to 14   *)
(* pixels, the numbers of the exact evaluation below.                      *)

FactorDen == 20
ClipVal == 2

\* `as u32` of an i32: a negative number wraps to one above i32::MAX, for
\* which the largest number of the model stands
AsU32(v) == IF v >= 0 THEN v ELSE 2147483647

\* round() of n / d, d > 0: to the nearest integer, a half away from zero
RoundHalfAway(n, d) ==
    IF n >= 0 THEN (2 * n + d) \div (2 * d)
    ELSE 0 - ((2 * (0 - n) + d) \div (2 * d))

\* the closure clip of new_fit_to_image: <<position, size>>
clip(var, size_bx, size_im) ==
    IF var < 0 THEN <<0, Min(size_bx + var, size_im)>>
    ELSE <<var, Min(size_bx + var, size_im) - var>>

new_fit_to_image(x, y, w, h, shape) ==
    LET xw == clip(x, w, shape.w)
        yh == clip(y, h, shape.h)
    IN  MkBB(AsU32(xw[1]), AsU32(yh[1]), AsU32(xw[2]), AsU32(yh[2]))

\* center_scale whose casts cut the fraction off instead of rounding
center_scale_trunc(b, factor_num, shape) ==
    new_fit_to_image(
        (FactorDen * (2 * b.x + b.w) - factor_num * b.w) \div (2 * FactorDen),
        (FactorDen * (2 * b.y + b.h) - factor_num * b.h) \div (2 * FactorDen),
        (factor_num * b.w) \div FactorDen,
        (factor_num * b.h) \div FactorDen, shape)

\* center_scale with factor = factor_num / FactorDen: with cx = x + w / 2,
\* topleft is cx - factor * w / 2 and btmright - topleft is factor * w
center_scale(b, factor_num, shape) ==
    new_fit_to_image(
        RoundHalfAway(FactorDen * (2 * b.x + b.w) - factor_num * b.w,
                      2 * FactorDen),
        RoundHalfAway(FactorDen * (2 * b.y + b.h) - factor_num * b.h,
                      2 * FactorDen),
        RoundHalfAway(factor_num * b.w, FactorDen),
        RoundHalfAway(factor_num * b.h, FactorDen), shape)

zoom_box_mouse_wheel(zb, so, y_delta) ==
    LET current_zb == IF IsSome(zb) THEN Unwrap(zb)
                      ELSE MkBB(0, 0, so.w, so.h)
        y_delta_clipped == IF y_delta > 0 THEN Min(y_delta, ClipVal)
                           ELSE Max(y_delta, 0 - ClipVal)
    IN  Some(center_scale(current_zb, FactorDen - y_delta_clipped, so))

---------------------------------------------------------------------------
(* The zoom machine: the zoom box of one image under mouse wheel turns.    *)
(* tf_in keeps the wheel delta and tf_mid the zoom box before the turn.    *)

YDeltas == (0 - MaxWheel)..MaxWheel

FullImage == MkBB(0, 0, shape_orig.w, shape_orig.h)

InitZoom ==
    /\ shape_orig = Shape(MaxZoomLong, MaxZoomShort)
    /\ shape_win = Shape(1, 1)
    /\ zoom_box \in {None} \cup {Some(b) : b \in BoxesIn(shape_orig)}
    /\ tf_op = "none" /\ tf_in = <<0, 0>> /\ tf_mid = None /\ tf_out = None
    /\ IdleBB /\ IdleHist /\ IdleAnno /\ IdleData /\ IdleClr /\ IdleStr /\ IdleRx /\ IdleIt

ZoomBoxMouseWheel(y_delta) ==
    /\ zoom_box' = zoom_box_mouse_wheel(zoom_box, shape_orig, y_delta)
    /\ tf_op' = "zoom_box_mouse_wheel"
    /\ tf_in' = <<y_delta, 0>>
    /\ tf_mid' = zoom_box
    /\ UNCHANGED <<shape_orig, shape_win, tf_out>>
    /\ UNCHANGED <<varsBB, varsHist, varsAnno, varsData, varsClr, varsStr, varsRx, varsIt>>

NextZoom == \E y_delta \in YDeltas : ZoomBoxMouseWheel(y_delta)

SpecZoom == InitZoom /\ [][NextZoom]_vars

\* C15: zoom box invariant.  From None or any box inside shape_orig, after
\* any sequence of wheel turns the zoom box is Some(bb) with bb.w >= 1,
\* bb.h >= 1, bb.x + bb.w <= shape_orig.w and bb.y + bb.h <= shape_orig.h;
\* zooming out (delta <= -1) of the full image gives the full-image box.
C15_ZoomBoxInvariant ==
    tf_op = "zoom_box_mouse_wheel" =>
        /\ IsSome(zoom_box)
        /\ Unwrap(zoom_box).w >= 1 /\ Unwrap(zoom_box).h >= 1
        /\ Unwrap(zoom_box).x >= 0 /\ Unwrap(zoom_box).y >= 0
        /\ Unwrap(zoom_box).x + Unwrap(zoom_box).w <= shape_orig.w
        /\ Unwrap(zoom_box).y + Unwrap(zoom_box).h <= shape_orig.h
        /\ (tf_in[1] <= 0 - ClipVal /\ tf_mid \in {None, Some(FullImage)})
              => zoom_box = Some(FullImage)

\* a box at the right border was zoomed in to a smaller one that was
\* fitted back into the image, and the full image was zoomed out
C15_Witness ==
    /\ tf_op = "zoom_box_mouse_wheel"
    /\ \/ /\ tf_in[1] > 0 /\ IsSome(tf_mid)
          /\ Unwrap(tf_mid).x + Unwrap(tf_mid).w = shape_orig.w
          /\ Unwrap(zoom_box).w < Unwrap(tf_mid).w
          /\ Unwrap(zoom_box).x > Unwrap(tf_mid).x
       \/ tf_in[1] <= 0 - ClipVal /\ tf_mid = None

---------------------------------------------------------------------------
(* domain.rs: BB::from_points, and the machine that makes a box of two     *)
(* corner points.  bb_arg keeps the two points.                            *)

from_points(p1, p2) ==
    LET x_min == Min(p1[1], p2[1])
        y_min == Min(p1[2], p2[2])
        x_mx == Max(p1[1], p2[1])
        y_mx == Max(p1[2], p2[2])
    IN  MkBB(x_min, y_min, x_mx - x_min, y_mx - y_min)

Points == (0..MaxPoint) \X (0..MaxPoint)

InitPoints ==
    /\ bb = MkBB(0, 0, 1, 1) /\ bb_shape = Shape(1, 1)
    /\ bb_op = "none" /\ bb_arg = <<0, 0>> /\ bb_res = None
    /\ IdleTf /\ IdleHist /\ IdleAnno /\ IdleData /\ IdleClr /\ IdleStr /\ IdleRx /\ IdleIt

FromPoints(p1, p2) ==
    /\ bb' = from_points(p1, p2)
    /\ bb_op' = "from_points"
    /\ bb_arg' = <<p1, p2>>
    /\ UNCHANGED <<bb_shape, bb_res>>
    /\ UNCHANGED <<varsTf, varsHist, varsAnno, varsData, varsClr, varsStr, varsRx, varsIt>>

NextPoints == \E p1 \in Points, p2 \in Points : FromPoints(p1, p2)

SpecPoints == InitPoints /\ [][NextPoints]_vars

\* C16: from_points never makes a degenerate box.  For all corner pairs,
\* equal points and points that agree in one coordinate included, the box
\* has w >= 1 and h >= 1.
C16_FromPointsNotDegenerate ==
    bb_op = "from_points" => bb.w >= 1 /\ bb.h >= 1


\* ---------------------------------------------------------------------
\* Color assignment (tools_data/bbox_data.rs, color_dist .. new_color)
\* ---------------------------------------------------------------------

\* A color is a triple of channels.  color_dist returns the square root of
\* the sum of the squared channel differences; the sum is an integer below
\* 2^24, so it is exact in f32, and the square root keeps the order of
\* such integers.  The model compares the sums themselves.
color_dist(c1, c2) ==
    LET square_d(i) == (c1[i] - c2[i]) * (c1[i] - c2[i])
    IN  square_d(1) + square_d(2) + square_d(3)

\* The inner min_by(..).unwrap_or(0.0): the smallest distance of pickclr to
\* a color in use, 0 when no color is in use.
min_dist(leglist, pickclr) ==
    IF leglist = <<>> THEN 0
    ELSE LET i == CHOOSE k \in 1..Len(leglist) :
                      \A j \in 1..Len(leglist) :
                          color_dist(leglist[k], pickclr) <= color_dist(leglist[j], pickclr)
         IN  color_dist(leglist[i], pickclr)

\* The candidate nearest to the colors in use.
argmax_clr_dist_nearest(pick, leglist) ==
    LET idx == CHOOSE i \in 1..Len(pick) :
                   \A j \in 1..Len(pick) :
                       min_dist(leglist, pick[i]) <= min_dist(leglist, pick[j])
    IN  pick[idx]

\* Iterator::max_by returns the last of several maximal elements.
argmax_clr_dist(pick, leglist) ==
    LET idx == CHOOSE i \in 1..Len(pick) :
                   /\ \A j \in 1..Len(pick) :
                          min_dist(leglist, pick[j]) <= min_dist(leglist, pick[i])
                   /\ \A j \in (i + 1)..Len(pick) :
                          min_dist(leglist, pick[j]) < min_dist(leglist, pick[i])
    IN  pick[idx]

\* colors of test_argmax, near and far from each other
Clrs == {<<0, 0, 1>>, <<1, 7, 3>>, <<17, 16, 15>>, <<50, 50, 50>>,
         <<200, 200, 200>>}

ClrLists(lo, hi) == UNION {[1..n -> Clrs] : n \in lo..hi}

InitClr ==
    /\ picklist \in ClrLists(1, MaxPick)
    /\ legacylist \in ClrLists(0, MaxLegacy)
    /\ clr_op = "idle" /\ clr_res = None
    /\ IdleTf /\ IdleBB /\ IdleHist /\ IdleAnno /\ IdleData /\ IdleStr /\ IdleRx /\ IdleIt

ArgmaxClrDist ==
    /\ clr_op = "idle"
    /\ clr_res' = Some(argmax_clr_dist(picklist, legacylist))
    /\ clr_op' = "argmax_clr_dist"
    /\ UNCHANGED <<picklist, legacylist>>
    /\ UNCHANGED <<varsTf, varsBB, varsHist, varsAnno, varsData, varsStr, varsRx, varsIt>>

NextClr == ArgmaxClrDist

SpecClr == InitClr /\ [][NextClr]_vars

\* C17: for a non-empty picklist, argmax_clr_dist returns an element of the
\* picklist, and no other element of the picklist is farther from its
\* nearest color of legacylist than the returned one is from its nearest;
\* with an empty legacylist every candidate counts as distance 0 and an
\* element of the picklist is still returned.
C17_ArgmaxClrDist ==
    clr_op = "argmax_clr_dist" =>
        /\ IsSome(clr_res)
        /\ \E i \in 1..Len(picklist) : picklist[i] = Unwrap(clr_res)
        /\ \A i \in 1..Len(picklist) :
               \A l1 \in 1..Len(legacylist) :
                   \E l2 \in 1..Len(legacylist) :
                       color_dist(legacylist[l2], picklist[i])
                           <= color_dist(legacylist[l1], Unwrap(clr_res))

\* A call in which the candidates differ in their distance to the colors in
\* use and the first candidate is not the farthest.
C17_Witness ==
    /\ clr_op = "argmax_clr_dist"
    /\ Len(picklist) >= 2 /\ Len(legacylist) >= 2
    /\ Unwrap(clr_res) # picklist[1]
    /\ \E i, j \in 1..Len(picklist) :
           min_dist(legacylist, picklist[i]) < min_dist(legacylist, picklist[j])


\* ---------------------------------------------------------------------
\* Box text (domain.rs, impl FromStr for BB)
\* ---------------------------------------------------------------------

\* A string is a sequence of one-byte characters.
Digits == {"1", "2"}
DigitVal(c) == IF c = "1" THEN 1 ELSE 2

\* str::split(','): the pieces between the commas, one piece for a string
\* without comma, the empty string included.
RECURSIVE split(_)
split(s) ==
    IF \A i \in 1..Len(s) : s[i] # ","
    THEN <<s>>
    ELSE LET i == CHOOSE k \in 1..Len(s) :
                      s[k] = "," /\ \A j \in 1..(k - 1) : s[j] # ","
         IN  <<SubSeq(s, 1, i - 1)>> \o split(SubSeq(s, i + 1, Len(s)))

\* str::trim
RECURSIVE trim(_)
trim(s) ==
    IF s = <<>> THEN s
    ELSE IF Head(s) = " " THEN trim(Tail(s))
    ELSE IF s[Len(s)] = " " THEN trim(SubSeq(s, 1, Len(s) - 1))
    ELSE s

RECURSIVE DecimalVal(_)
DecimalVal(s) ==
    IF s = <<>> THEN 0
    ELSE 10 * DecimalVal(SubSeq(s, 1, Len(s) - 1)) + DigitVal(s[Len(s)])

\* str::parse::<u32>: None stands for the Err of a string that is empty or
\* has a character that is not a digit.
parse_u32(s) ==
    IF s # <<>> /\ \A i \in 1..Len(s) : s[i] \in Digits
    THEN Some(DecimalVal(s))
    ELSE None

\* BB::from_str.  The slice s[1..(s.len() - 1)] panics for a string of
\* fewer than two bytes; the four next() calls read the first four pieces
\* and nothing looks at a fifth.
from_str(s) ==
    IF Len(s) < 2 THEN [kind |-> "Panic"]
    ELSE LET int_iter == split(SubSeq(s, 2, Len(s) - 1))
             field(k) == parse_u32(trim(int_iter[k]))
         IN  IF /\ Len(int_iter) >= 4
                /\ \A k \in 1..4 : IsSome(field(k))
             THEN [kind |-> "Ok",
                   bb |-> MkBB(Unwrap(field(1)), Unwrap(field(2)),
                               Unwrap(field(3)), Unwrap(field(4)))]
             ELSE [kind |-> "Err"]

\* The strings of the model: an opening character or none, up to MaxFields
\* comma-separated fields, a closing character or none.
StrOpen == {<<>>, <<"[">>, <<"x">>}
StrClose == {<<>>, <<"]">>, <<"x">>}
StrFields == {<<>>, <<"1">>, <<" ", "2">>, <<"x">>}

RECURSIVE join(_)
join(fields) ==
    IF fields = <<>> THEN <<>>
    ELSE IF Len(fields) = 1 THEN fields[1]
    ELSE fields[1] \o <<",">> \o join(Tail(fields))

Strs ==
    {o \o join(fs) \o c :
        o \in StrOpen, c \in StrClose,
        fs \in UNION {[1..n -> StrFields] : n \in 0..MaxFields}}

InitStr ==
    /\ str_in \in Strs
    /\ str_res = [kind |-> "idle"]
    /\ IdleTf /\ IdleBB /\ IdleHist /\ IdleAnno /\ IdleData /\ IdleClr /\ IdleRx /\ IdleIt

FromStr ==
    /\ str_res.kind = "idle"
    /\ str_res' = from_str(str_in)
    /\ UNCHANGED str_in
    /\ UNCHANGED <<varsTf, varsBB, varsHist, varsAnno, varsData, varsClr, varsRx, varsIt>>

NextStr == FromStr

SpecStr == InitStr /\ [][NextStr]_vars

\* a bracketed list of exactly four unsigned integers
IsBracketedFour(s) ==
    /\ Len(s) >= 2 /\ s[1] = "[" /\ s[Len(s)] = "]"
    /\ LET fields == split(SubSeq(s, 2, Len(s) - 1))
       IN  /\ Len(fields) = 4
           /\ \A k \in 1..4 : IsSome(parse_u32(trim(fields[k])))

\* C20: BB::from_str returns Ok only for a bracketed list of exactly four
\* unsigned integers, and returns an Err value, never a panic and never Ok,
\* for every other string: the empty string, a one-character string, a
\* string without the enclosing brackets, fewer or more than four fields,
\* fields that are not numbers.
C20_FromStrStrict ==
    str_res.kind # "idle" =>
        /\ str_res.kind = "Ok" => IsBracketedFour(str_in)
        /\ ~IsBracketedFour(str_in) => str_res.kind = "Err"


\* ---------------------------------------------------------------------
\* Remote image requests (main.rs, the poll of the channel in the event
\* loop).  A message is [id, label]: id counts the messages in the order
\* they were sent, label is Some(file label) for Ok(file_label) and None
\* for an Err.
\* ---------------------------------------------------------------------

\* a poll that takes the oldest waiting message
try_iter_first(q) ==
    IF q = <<>> THEN None ELSE Some(q[1])

\* rx.try_iter().last(): every waiting message is received, the last one
\* received is kept
try_iter_last(q) ==
    IF q = <<>> THEN None ELSE Some(q[Len(q)])

RxLabels == {"f1", "f2"}

InitRx ==
    /\ rx = <<>> /\ rx_sent = 0 /\ rx_polled = 0
    /\ rx_handled = None /\ rx_dropped = {} /\ rx_label = None
    /\ IdleTf /\ IdleBB /\ IdleHist /\ IdleAnno /\ IdleData /\ IdleClr
    /\ IdleStr /\ IdleIt

\* the server thread sends a message
RxSend(label) ==
    /\ rx_sent < MaxSent
    /\ rx' = Append(rx, [id |-> rx_sent + 1, label |-> label])
    /\ rx_sent' = rx_sent + 1
    /\ UNCHANGED <<rx_polled, rx_handled, rx_dropped, rx_label>>
    /\ UNCHANGED <<varsTf, varsBB, varsHist, varsAnno, varsData, varsClr, varsStr, varsIt>>

\* one frame of the event loop: the channel is emptied without waiting,
\* the last message is matched, Ok(file_label) selects the label in the
\* menu and an Err is printed
RxPoll ==
    LET last == try_iter_last(rx)
    IN  /\ rx' = <<>>
        /\ rx_polled' = rx_sent
        /\ rx_handled' = last
        /\ rx_dropped' = {rx[k].id : k \in 1..Len(rx)}
                          \ (IF IsSome(last) THEN {Unwrap(last).id} ELSE {})
        /\ rx_label' = IF IsSome(last) /\ IsSome(Unwrap(last).label)
                       THEN Unwrap(last).label
                       ELSE rx_label
        /\ UNCHANGED rx_sent
        /\ UNCHANGED <<varsTf, varsBB, varsHist, varsAnno, varsData, varsClr, varsStr, varsIt>>

NextRx ==
    \/ \E label \in {None} \cup {Some(l) : l \in RxLabels} : RxSend(label)
    \/ RxPoll

SpecRx == InitRx /\ [][NextRx]_vars

\* C21: a poll empties the channel without waiting; when messages arrived
\* since the previous poll, exactly the most recently sent one is handled
\* (an Ok selects its file label) and the older ones are discarded; no
\* message sent before a poll is handled after that poll.
C21_LastWriteWins ==
    [][rx_sent' = rx_sent =>
        /\ rx' = <<>>
        /\ rx_polled' = rx_sent
        /\ IF rx_sent > rx_polled
           THEN /\ IsSome(rx_handled') /\ Unwrap(rx_handled').id = rx_sent
                /\ rx_dropped' = (rx_polled + 1)..(rx_sent - 1)
                /\ IsSome(Unwrap(rx_handled').label)
                      => rx_label' = Unwrap(rx_handled').label
                /\ ~IsSome(Unwrap(rx_handled').label) => rx_label' = rx_label
           ELSE rx_handled' = None /\ rx_dropped' = {} /\ rx_label' = rx_label
        /\ \A k \in 1..Len(rx) : rx[k].id > rx_polled]_vars

\* a poll that found three messages, handled the newest, which selected a
\* label, and discarded the two older ones
C21_Witness ==
    /\ rx = <<>> /\ rx_polled = rx_sent
    /\ IsSome(rx_handled) /\ Unwrap(rx_handled).id = MaxSent
    /\ rx_dropped = {MaxSent - 2, MaxSent - 1}
    /\ rx_label = Some("f2")


\* ---------------------------------------------------------------------
\* Dragging a box in split mode (bbox_splitmode.rs, geo_follow_movement)
\* ---------------------------------------------------------------------

\* BB::follow_movement(from, to, shape, OutOfBoundsMode::Resize(..)): the
\* box is translated by to - from and fitted into the image; a box
\* of which nothing is left inside the image is rejected.
follow_movement_resize(b, from, to, shape) ==
    LET x_shift == to[1] - from[1]
        y_shift == to[2] - from[2]
        xw == clip(b.x + x_shift, b.w, shape.w)
        yh == clip(b.y + y_shift, b.h, shape.h)
    IN  IF xw[2] >= 1 /\ yh[2] >= 1
        THEN Some(new_fit_to_image(b.x + x_shift, b.y + y_shift, b.w, b.h, shape))
        ELSE None

\* the result <<has_moved, bb>> of an Option<BB>
MovedOr(res, b) == IF IsSome(res) THEN <<TRUE, Unwrap(res)>> ELSE <<FALSE, b>>

\* geo_follow_movement for GeoFig::BB; positions are <<x, y>>
geo_follow_movement(mode, b, mpo_from, mpo_to, orig_shape) ==
    CASE mode = "None" ->
            MovedOr(follow_movement(b, mpo_from, mpo_to, orig_shape), b)
      [] mode = "Horizontal" ->
            LET to == <<mpo_from[1], mpo_to[2]>>
                y_shift == to[2] - mpo_from[2]
            IN  IF y_shift > 0 /\ b.y = 0
                THEN MovedOr(shift_max(b, 0, y_shift, orig_shape), b)
                ELSE IF y_shift < 0 /\ b.y + b.h = orig_shape.h
                THEN MovedOr(shift_min(b, 0, y_shift, orig_shape), b)
                ELSE MovedOr(follow_movement_resize(b, mpo_from, to, orig_shape), b)
      [] mode = "Vertical" ->
            LET to == <<mpo_to[1], mpo_from[2]>>
                x_shift == to[1] - mpo_from[1]
            IN  IF x_shift > 0 /\ b.x = 0
                THEN MovedOr(shift_max(b, x_shift, 0, orig_shape), b)
                ELSE IF x_shift < 0 /\ b.x + b.w = orig_shape.h
                THEN MovedOr(shift_min(b, x_shift, 0, orig_shape), b)
                ELSE MovedOr(follow_movement_resize(b, mpo_from, to, orig_shape), b)

InitGeo ==
    /\ bb_shape \in Shapes(MaxBoxDim)
    /\ bb \in BoxesIn(bb_shape)
    /\ bb_op = "none" /\ bb_arg = <<0, 0>> /\ bb_res = None
    /\ IdleTf /\ IdleHist /\ IdleAnno /\ IdleData /\ IdleClr /\ IdleStr
    /\ IdleRx /\ IdleIt

GeoFollowMovement(mode, mpo_from, mpo_to) ==
    /\ bb_op = "none"
    /\ bb_op' = "geo_follow_movement"
    /\ bb_arg' = <<mode, mpo_from, mpo_to>>
    /\ bb_res' = geo_follow_movement(mode, bb, mpo_from, mpo_to, bb_shape)
    /\ UNCHANGED <<bb, bb_shape>>
    /\ UNCHANGED <<varsTf, varsHist, varsAnno, varsData, varsClr, varsStr, varsRx, varsIt>>

NextGeo ==
    \E mode \in SplitModes, mpo_from \in MousePositions,
       mpo_to \in MousePositions :
        GeoFollowMovement(mode, mpo_from, mpo_to)

SpecGeo == InitGeo /\ [][NextGeo]_vars

\* C22: geo_follow_movement in SplitMode::Horizontal returns a box whose
\* top edge was at y = 0 and that is dragged downwards with the top edge
\* still at 0, and a box whose bottom edge was at y + h = shape.h and that
\* is dragged upwards with the bottom edge still at shape.h; only the
\* opposite edge may have moved.  SplitMode::Vertical does the same for
\* x = 0 dragged right and x + w = shape.w dragged left.
C22_EdgePinned ==
    bb_op = "geo_follow_movement" =>
        LET mode == bb_arg[1]
            dx == bb_arg[3][1] - bb_arg[2][1]
            dy == bb_arg[3][2] - bb_arg[2][2]
            res == bb_res[2]
        IN  /\ (mode = "Horizontal" /\ bb.y = 0 /\ dy > 0) =>
                    res.y = 0 /\ res.x = bb.x /\ res.w = bb.w
            /\ (mode = "Horizontal" /\ bb.y + bb.h = bb_shape.h /\ dy < 0) =>
                    res.y + res.h = bb_shape.h /\ res.x = bb.x /\ res.w = bb.w
            /\ (mode = "Vertical" /\ bb.x = 0 /\ dx > 0) =>
                    res.x = 0 /\ res.y = bb.y /\ res.h = bb.h
            /\ (mode = "Vertical" /\ bb.x + bb.w = bb_shape.w /\ dx < 0) =>
                    res.x + res.w = bb_shape.w /\ res.y = bb.y /\ res.h = bb.h


\* ---------------------------------------------------------------------
\* Drawing a box on the view (domain.rs: to_viewcorners, ViewCorners,
\* BbViewPointIterator, points_on_view)
\* ---------------------------------------------------------------------

\* min_max is None or Some(<<min, max>>)
orig_coord_to_view_coord(coord, n_coords, n_pixels_scaled, min_max) ==
    IF IsSome(min_max)
       /\ (coord < Unwrap(min_max)[1] \/ Unwrap(min_max)[2] <= coord)
    THEN None
    ELSE LET unscaled == IF IsSome(min_max)
                         THEN Unwrap(min_max)[2] - Unwrap(min_max)[1]
                         ELSE n_coords
             off == IF IsSome(min_max) THEN Unwrap(min_max)[1] ELSE 0
         IN  Some(coord_orig_2_view(coord, n_pixels_scaled, unscaled, off))

min_max(b, axis) ==
    IF axis = 0 THEN <<b.x, b.x + b.w>> ELSE <<b.y, b.y + b.h>>

ViewCorners(x_mn, y_mn, x_mx, y_mx) ==
    [x_min |-> x_mn, y_min |-> y_mn, x_max |-> x_mx, y_max |-> y_mx]

\* BB::to_viewcorners: the corners of the part of the box inside the zoom
\* box, in view coordinates; a corner coordinate out of view is None
to_viewcorners(b, so, sw, zb) ==
    LET z == Unwrap(zb)
        x_mn == IF IsSome(zb) /\ z.x > b.x THEN z.x ELSE b.x
        y_mn == IF IsSome(zb) /\ z.y > b.y THEN z.y ELSE b.y
        x_mx == IF IsSome(zb) /\ z.x + z.w < b.x + b.w THEN z.x + z.w
                ELSE b.x + b.w
        y_mx == IF IsSome(zb) /\ z.y + z.h < b.y + b.h THEN z.y + z.h
                ELSE b.y + b.h
        s_unscaled == shape_unscaled(zb, so)
        s_scaled == shape_scaled(s_unscaled, sw)
        mm(axis) == IF IsSome(zb) THEN Some(min_max(z, axis)) ELSE None
        tf_x(x) == orig_coord_to_view_coord(x, s_unscaled.w, s_scaled.w, mm(0))
        tf_y(y) == orig_coord_to_view_coord(y, s_unscaled.h, s_scaled.h, mm(1))
    IN  ViewCorners(tf_x(x_mn), tf_y(y_mn), tf_x(x_mx), tf_y(y_mx))

unwrap_or(o, d) == IF IsSome(o) THEN Unwrap(o) ELSE d

\* the box of BbViewPointIterator::new
iter_new(view_corners, view_shape) ==
    LET x_mn == unwrap_or(view_corners.x_min, 0)
        y_mn == unwrap_or(view_corners.y_min, 0)
        x_mx == unwrap_or(view_corners.x_max, view_shape.w)
        y_mx == unwrap_or(view_corners.y_max, view_shape.h)
    IN  MkBB(x_mn, y_mn, AsU32(x_mx - x_mn), AsU32(y_mx - y_mn))

\* the box of the inner-point iterator that points_on_view returns
points_on_view(b, shape_view, so, sw, zb) ==
    iter_new(to_viewcorners(b, so, sw, zb), shape_view)

\* The iterator machine: a box of the original image is drawn on the view
\* ("points_on_view") or iterated as it is ("from_bb"); each step is one
\* call of next().
InitIter ==
    /\ shape_orig \in Shapes(MaxIterDim)
    /\ shape_win \in Shapes(MaxIterDim)
    /\ zoom_box \in {None} \cup {Some(b) : b \in BoxesIn(shape_orig)}
    /\ tf_op = "none" /\ tf_in = <<0, 0>> /\ tf_mid = None /\ tf_out = None
    /\ bb \in BoxesIn(shape_orig)
    /\ bb_shape = shape_orig
    /\ bb_op \in {"from_bb", "points_on_view"}
    /\ bb_arg = <<0, 0>> /\ bb_res = None
    /\ it_bb = IF bb_op = "from_bb" THEN bb
               ELSE points_on_view(bb, shape_scaled(shape_unscaled(zoom_box, shape_orig), shape_win),
                                   shape_orig, shape_win, zoom_box)
    /\ it_x = it_bb.x /\ it_y = it_bb.y
    /\ it_out = <<>> /\ it_state = "run"
    /\ IdleHist /\ IdleAnno /\ IdleData /\ IdleClr /\ IdleStr /\ IdleRx

\* Iterator::next.  x_max_excl - 1 underflows for x_max_excl = 0: a build
\* with overflow checks panics, a build without them wraps to u32::MAX,
\* which no position of the model equals.
IterNext(overflow_checks) ==
    /\ it_state = "run"
    /\ Len(it_out) < MaxYield
    /\ LET x_max_excl == it_bb.x + it_bb.w
           y_max_excl == it_bb.y + it_bb.h
       IN  IF it_y = y_max_excl
           THEN /\ it_state' = "done"
                /\ UNCHANGED <<it_x, it_y, it_out>>
           ELSE IF x_max_excl = 0 /\ overflow_checks
           THEN /\ it_state' = "panic"
                /\ UNCHANGED <<it_x, it_y, it_out>>
           ELSE /\ IF x_max_excl > 0 /\ it_x = x_max_excl - 1
                   THEN it_x' = it_bb.x /\ it_y' = it_y + 1
                   ELSE it_x' = it_x + 1 /\ it_y' = it_y
                /\ it_out' = Append(it_out, <<it_x, it_y>>)
                /\ UNCHANGED it_state
    /\ UNCHANGED it_bb
    /\ UNCHANGED <<varsTf, varsBB, varsHist, varsAnno, varsData, varsClr, varsStr, varsRx>>

NextIter == \E overflow_checks \in BOOLEAN : IterNext(overflow_checks)

SpecIter == InitIter /\ [][NextIter]_vars

\* the points of box b in row-major order
RowMajor(b) ==
    [k \in 1..(b.w * b.h) |-> <<b.x + ((k - 1) % b.w), b.y + ((k - 1) \div b.w)>>]

\* C24: the inner-point iterator of a box, also of a box that
\* BbViewPointIterator::new builds from view corners, ends after finitely
\* many steps and yields exactly the points (x, y) with
\* bb.x <= x < bb.x + bb.w and bb.y <= y < bb.y + bb.h, each once, in
\* row-major order.
C24_PointIteratorExact ==
    LET expected == IF it_bb.w = 0 THEN <<>> ELSE RowMajor(it_bb)
    IN  it_state \in {"run", "done", "panic"} =>
            /\ it_state # "panic"
            /\ Len(it_out) <= Len(expected)
            /\ it_out = SubSeq(expected, 1, Len(it_out))
            /\ it_state = "done" => it_out = expected


\* the boxes share a pixel: their half-open ranges intersect in x and in y
SharePixel(a, b) ==
    /\ a.x < b.x + b.w /\ b.x < a.x + a.w
    /\ a.y < b.y + b.h /\ b.y < a.y + a.h

\* C29: for a box bb of the original image and a zoom box zb whose pixel
\* ranges do not intersect, the inner-point iterator of bb.points_on_view
\* yields no point; for a bb that does intersect zb, every point it yields
\* lies inside the view shape.
C29_OutsideZoomNotDrawn ==
    (bb_op = "points_on_view" /\ IsSome(zoom_box)) =>
        LET view == shape_scaled(shape_unscaled(zoom_box, shape_orig), shape_win)
        IN  IF SharePixel(bb, Unwrap(zoom_box))
            THEN \A k \in 1..Len(it_out) :
                    it_out[k][1] < view.w /\ it_out[k][2] < view.h
            ELSE it_out = <<>>


----------------------------------------------------------------------------
(* domain.rs: BB::has_overlap *)

\* BB::corner, idx 0..3, counter-clockwise from the top left
corner(b, idx) ==
    CASE idx = 0 -> <<b.x, b.y>>
      [] idx = 1 -> <<b.x, b.y + b.h>>
      [] idx = 2 -> <<b.x + b.w, b.y + b.h>>
      [] idx = 3 -> <<b.x + b.w, b.y>>

corners(b) == {corner(b, idx) : idx \in 0..3}

has_overlap(a, other) ==
    IF \E c \in corners(a) : contains(other, c)
    THEN TRUE
    ELSE \E c \in corners(other) : contains(a, c)

\* The overlap machine: two boxes of an image are drawn at Init and in the
\* step; the step asks each of them for its overlap with the other.
InitOverlap ==
    /\ bb_shape \in Shapes(MaxBoxDim)
    /\ bb \in BoxesIn(bb_shape)
    /\ bb_op = "none" /\ bb_arg = <<0, 0>> /\ bb_res = None
    /\ IdleTf /\ IdleHist /\ IdleAnno /\ IdleData /\ IdleClr /\ IdleStr /\ IdleRx /\ IdleIt

HasOverlap(other) ==
    /\ bb_op' = "has_overlap"
    /\ bb_arg' = other
    /\ bb_res' = <<has_overlap(bb, other), has_overlap(other, bb)>>
    /\ UNCHANGED <<bb, bb_shape>>
    /\ UNCHANGED <<varsTf, varsHist, varsAnno, varsData, varsClr, varsStr, varsRx, varsIt>>

NextOverlap == \E other \in BoxesIn(bb_shape) : HasOverlap(other)

SpecOverlap == InitOverlap /\ [][NextOverlap]_vars

\* C30: for boxes a and b with w, h >= 1, a.has_overlap(b) equals
\* b.has_overlap(a), and it is true exactly when a and b share a pixel,
\* that is when their half-open x ranges and y ranges both intersect.
C30_HasOverlapExact ==
    bb_op = "has_overlap" =>
        /\ bb_res[1] = bb_res[2]
        /\ bb_res[1] = SharePixel(bb, bb_arg)

===========================================================================
